---- MODULE Spec2Model ----
(***************************************************************************)
(* Model of the GitHub sensor node of koi-node-gh-sensor:                  *)
(*   - the cursor store (config.py: LAST_PROCESSED_SHA, load_state,        *)
(*     update_state_file),                                                 *)
(*   - the backfill reconciler (backfill.py: perform_backfill),            *)
(*   - the live ingester (webhook.py: github_webhook, verify_signature),   *)
(*   - the startup sequence (server.py: lifespan).                         *)
(*                                                                         *)
(* Commit hashes are the numbers 1..MaxSha; a larger number is a newer     *)
(* commit of the repository's history. None (0) stands for Python's None, *)
(* a missing key and every other falsy hash ("").                          *)
(*                                                                         *)
(* github_webhook is a coroutine without an await in its body, so one      *)
(* request is one step. perform_backfill is a long synchronous function    *)
(* meant for a worker thread; it is cut into steps at its collaborator     *)
(* calls (snapshot, history fetch, each Processor.handle, each cursor      *)
(* write), so that requests interleave with it.                            *)
(***************************************************************************)
EXTENDS Integers, Sequences, FiniteSets, TLC

\* ---------------------------------------------------------------- bounds
MaxSha == 3        \* commit hashes are 1..MaxSha
MaxCommits == 2    \* longest commits[] list of a push payload
MaxRuns == 2       \* perform_backfill invocations explored
MaxRequests == 2   \* webhook requests explored
MaxFaults == 1     \* collaborator failures (provider, Processor, storage) explored
MaxEvents == 2     \* peer-discovery events explored
MaxRids == 2
MaxNameLen == 2
MaxShaLen == 7       \* longest peer inventory returned by fetch_rids

None == 0
Shas == 1..MaxSha
MaybeSha == 0..MaxSha

\* config.py:67  MONITORED_REPOS (parsed list, in configuration order)
MONITORED_REPOS == <<"acme/widgets", "acme/gears">>
Monitored == {MONITORED_REPOS[i] : i \in 1..Len(MONITORED_REPOS)}
\* a repository that is not monitored, for payloads and loaded state
OtherRepo == "other/repo"
AllRepos == Monitored \cup {OtherRepo}

\* config.py:66  GITHUB_WEBHOOK_SECRET (a required, non-empty setting)
GITHUB_WEBHOOK_SECRET == "secret"

VARIABLES
    LAST_PROCESSED_SHA,  \* config.py:72   in-memory cursor map, repo -> sha (None: no key)
    state_file,          \* config.py:68   the JSON file at STATE_FILE_PATH
    startup_state,       \* the map load_state produced at import time (history variable)
    upstream,            \* provider: newest-first commit history of each monitored repo
                         \* (the listing get_commits() returns during this process lifetime)
    bf,                  \* the thread of control inside perform_backfill
    runs,                \* number of perform_backfill invocations so far
    app,                 \* server.py lifespan: position and the backfill_task object
    handle_calls,        \* Processor.handle(bundle=commit) calls per (repo, sha)
    handle_ok,           \* ... and those of them that returned normally
    last,                \* the last webhook request, its response and effects
    requests,            \* number of webhook requests so far
    faults,              \* number of collaborator failures so far
    net,                 \* handlers/github.py: the overlay network as the KoiNetNode
                         \* handlers see it, and the event they are handling
    norm,                \* one raw commit record on its way through the loop body of
                         \* a feed (webhook.py:105-148, backfill.py:68-95)
    coord,               \* coordinator/node/handlers/network.py: the calls the
                         \* coordinator's handshake_handler makes for an event
    ident                \* types.py: one GithubCommit identity being constructed,
                         \* serialized and parsed back

\* the state of the commit sensor proper
sensor_vars == <<LAST_PROCESSED_SHA, state_file, startup_state, upstream, bf, runs, app,
                 handle_calls, handle_ok, last, requests, faults>>

vars == <<LAST_PROCESSED_SHA, state_file, startup_state, upstream, bf, runs, app,
          handle_calls, handle_ok, last, requests, faults, net, norm, coord, ident>>

\* ------------------------------------------------------------ cursor store
EmptyDict == [r \in AllRepos |-> None]

\* dict.get(key): None when the key is missing
Get(d, repo) == IF repo \in DOMAIN d THEN d[repo] ELSE None

Keys(d) == {r \in DOMAIN d : d[r] # None}

\* config.py:74-89  load_state: the file's mapping, or {} when the file is
\* missing, is not JSON, or cannot be read
\* variant: whatever mapping the bytes of the file spell is taken over
load_state_lenient(file) ==
    file.data

load_state(file) ==
    IF file.status = "ok" THEN file.data ELSE EmptyDict

\* config.py:91-105 update_state_file: the in-memory entry is set first, then
\* the whole mapping is dumped; an IOError (or any error) is logged and swallowed
FileAfterWrite(file, dict, write_ok) ==
    IF write_ok THEN [status |-> "ok", data |-> dict] ELSE file

\* variant: the in-memory entry is set only when the dump succeeded
update_state_file_only_on_success(repo_name, last_sha, write_ok) ==
    /\ LAST_PROCESSED_SHA' = IF write_ok
                             THEN [LAST_PROCESSED_SHA EXCEPT ![repo_name] = last_sha]
                             ELSE LAST_PROCESSED_SHA
    /\ state_file' = FileAfterWrite(state_file,
                                    [LAST_PROCESSED_SHA EXCEPT ![repo_name] = last_sha],
                                    write_ok)

\* variant: the dump patches the one entry into what the file held
update_state_file_patches_file(repo_name, last_sha, write_ok) ==
    /\ LAST_PROCESSED_SHA' = [LAST_PROCESSED_SHA EXCEPT ![repo_name] = last_sha]
    /\ state_file' = FileAfterWrite(state_file,
                                    [load_state(state_file) EXCEPT ![repo_name] = last_sha],
                                    write_ok)

\* variant: the map is replaced by one holding the new entry only
update_state_file_resets_map(repo_name, last_sha, write_ok) ==
    /\ LAST_PROCESSED_SHA' = [EmptyDict EXCEPT ![repo_name] = last_sha]
    /\ state_file' = FileAfterWrite(state_file, LAST_PROCESSED_SHA', write_ok)

update_state_file(repo_name, last_sha, write_ok) ==
    /\ LAST_PROCESSED_SHA' = [LAST_PROCESSED_SHA EXCEPT ![repo_name] = last_sha]
    /\ state_file' = FileAfterWrite(state_file, LAST_PROCESSED_SHA', write_ok)

\* ------------------------------------------------------- Processor boundary
\* outcome of normalizing and submitting one commit: the bundle is submitted
\* and handle returns, building the record raises before handle is called,
\* or handle itself raises
CommitOutcomes == {"ok", "normalize_error", "handle_error"}

HandleCalled(outcome) == outcome # "normalize_error"

\* node.processor.handle(bundle=...) for commits of repo (backfill.py:89,
\* webhook.py:141): the per-identity call counts after the calls shas_called
CountCalls(calls, repo, shas_called) ==
    [r \in Monitored |-> [s \in Shas |->
        calls[r][s] + IF r = repo
                      THEN Cardinality({i \in DOMAIN shas_called : shas_called[i] = s})
                      ELSE 0]]

\* a collaborator call fails (failed = TRUE) or succeeds; the number of
\* failures explored in one behaviour is bounded by MaxFaults
Fault(failed) ==
    IF failed THEN faults < MaxFaults /\ faults' = faults + 1
    ELSE faults' = faults

\* ------------------------------------------------------------- provider
\* newest-first history with n commits: <<n, n-1, ..., 1>>
History(n) == [i \in 1..n |-> n - i + 1]

\* result of github_client.get_repo / iterating get_commits():
\* the full listing, RateLimitExceededException, another GithubException,
\* or any other exception
FetchOutcomes == {"ok", "rate_limit", "github_error", "error"}

\* ------------------------------------------------------------- backfill
\* backfill.py:49-55  scan newest-first, stop at the stored sha (not buffered)
RECURSIVE ScanFrom(_, _, _)
ScanFrom(commits, last_sha_for_repo, i) ==
    IF i > Len(commits) THEN <<>>
    ELSE IF last_sha_for_repo # None /\ commits[i] = last_sha_for_repo THEN <<>>
    ELSE <<commits[i]>> \o ScanFrom(commits, last_sha_for_repo, i + 1)

\* variant: the record equal to the stored sha is buffered before the break
RECURSIVE ScanThrough(_, _, _)
ScanThrough(commits, last_sha_for_repo, i) ==
    IF i > Len(commits) THEN <<>>
    ELSE IF last_sha_for_repo # None /\ commits[i] = last_sha_for_repo THEN <<commits[i]>>
    ELSE <<commits[i]>> \o ScanThrough(commits, last_sha_for_repo, i + 1)

commits_to_process_buffer_inclusive(commits, last_sha_for_repo) ==
    ScanThrough(commits, last_sha_for_repo, 1)

\* variant: a stored sha that the scan does not meet buffers nothing
commits_to_process_buffer_requires_match(commits, last_sha_for_repo) ==
    IF last_sha_for_repo # None
       /\ \A i \in DOMAIN commits : commits[i] # last_sha_for_repo
    THEN <<>>
    ELSE ScanFrom(commits, last_sha_for_repo, 1)

commits_to_process_buffer(commits, last_sha_for_repo) ==
    ScanFrom(commits, last_sha_for_repo, 1)

\* backfill.py:68  reversed(commits_to_process_buffer)
reversed(seq) == [i \in 1..Len(seq) |-> seq[Len(seq) - i + 1]]

BfIdle ==
    [pc |-> "idle", current_state |-> EmptyDict, repo |-> 1, todo |-> <<>>,
     newest_sha_processed_in_repo |-> None,
     newest_sha_processed_overall_map |-> [r \in Monitored |-> None],
     persist |-> 1,
     \* history of the run, for the properties below
     log |-> <<>>,            \* the handle calls of this run, in order
     provider_ok |-> TRUE,    \* no history fetch of this run has failed
     commits_ok |-> TRUE,     \* no commit of this run failed to normalize or submit
     newest_ok |-> TRUE,      \* the newest buffered commit of every repository was submitted
     quiet |-> TRUE,          \* no webhook request since this run began
     attempted |-> {},        \* positions in MONITORED_REPOS whose history was requested
     fetches |-> [i \in 1..Len(MONITORED_REPOS) |-> 0],  \* how often each was requested
     rate_limited |-> 0,      \* position whose fetch raised RateLimitExceededException (0: none)
     skipped |-> {},          \* positions whose fetch raised another error (backfill.py:106-111)
     dropped |-> {},          \* commits of this run whose normalization raised (backfill.py:94)
     successive |-> FALSE,    \* the run began after another run, with no request in between
     after_complete |-> FALSE] \* ... and that run had provider_ok and newest_ok

\* backfill.py:35, 98-111  the for loop moves to the next repository, or
\* falls through to the persistence loop (backfill.py:113)
NextRepo(b) ==
    IF b.repo < Len(MONITORED_REPOS)
    THEN [b EXCEPT !.pc = "fetch", !.repo = @ + 1, !.todo = <<>>,
                   !.newest_sha_processed_in_repo = None]
    ELSE [b EXCEPT !.pc = "persist", !.repo = @ + 1, !.todo = <<>>,
                   !.newest_sha_processed_in_repo = None, !.persist = 1]

\* backfill.py:97-100  after the repository's commits: remember the newest sha
RepoDone(b, newest) ==
    NextRepo([b EXCEPT !.newest_sha_processed_overall_map[MONITORED_REPOS[b.repo]] =
                          IF newest # None THEN newest ELSE @])

\* backfill.py:19-33  perform_backfill is called: snapshot of the cursor map
perform_backfill_start ==
    /\ bf.pc \in {"idle", "done"}
    /\ runs < MaxRuns
    /\ runs' = runs + 1
    /\ bf' = [BfIdle EXCEPT
                !.pc = IF Len(MONITORED_REPOS) = 0 THEN "done" ELSE "fetch",
                !.current_state = LAST_PROCESSED_SHA,
                !.successive = (bf.pc = "done" /\ bf.quiet),
                !.after_complete = (bf.pc = "done" /\ bf.quiet /\ bf.provider_ok
                                    /\ bf.newest_ok)]
    /\ UNCHANGED <<LAST_PROCESSED_SHA, state_file, startup_state, upstream, app,
                   handle_calls, handle_ok, last, requests, faults, net, norm, coord, ident>>

\* variant: a rate-limit error is handled like any other provider error
\* (the repository is skipped and the loop goes on)
perform_backfill_fetch_rate_limit_skips(outcome) ==
    /\ bf.pc = "fetch"
    /\ Fault(outcome # "ok")
    /\ LET repo_full_name == MONITORED_REPOS[bf.repo]
           last_sha_for_repo == Get(bf.current_state, repo_full_name)
           buffer == commits_to_process_buffer(upstream[repo_full_name], last_sha_for_repo)
           b0 == [bf EXCEPT !.attempted = @ \cup {bf.repo}, !.fetches[bf.repo] = @ + 1]
       IN  bf' =
             CASE outcome = "rate_limit" ->
                     NextRepo([b0 EXCEPT !.provider_ok = FALSE, !.rate_limited = bf.repo])
               [] outcome \in {"github_error", "error"} ->
                     NextRepo([b0 EXCEPT !.provider_ok = FALSE, !.skipped = @ \cup {bf.repo}])
               [] OTHER ->
                     IF buffer = <<>> THEN RepoDone(b0, None)
                     ELSE [b0 EXCEPT !.pc = "process", !.todo = reversed(buffer),
                                     !.newest_sha_processed_in_repo = None]
    /\ UNCHANGED <<LAST_PROCESSED_SHA, state_file, startup_state, upstream, runs, app,
                   handle_calls, handle_ok, last, requests, net, norm, coord, ident>>

\* variant: any provider error ends the run, as the rate-limit error does
perform_backfill_fetch_error_aborts(outcome) ==
    /\ bf.pc = "fetch"
    /\ Fault(outcome # "ok")
    /\ LET repo_full_name == MONITORED_REPOS[bf.repo]
           last_sha_for_repo == Get(bf.current_state, repo_full_name)
           buffer == commits_to_process_buffer(upstream[repo_full_name], last_sha_for_repo)
           b0 == [bf EXCEPT !.attempted = @ \cup {bf.repo}, !.fetches[bf.repo] = @ + 1]
       IN  bf' =
             CASE outcome = "rate_limit" ->
                     [b0 EXCEPT !.pc = "done", !.provider_ok = FALSE,
                                !.rate_limited = bf.repo]
               [] outcome \in {"github_error", "error"} ->
                     [b0 EXCEPT !.pc = "done", !.provider_ok = FALSE,
                                !.skipped = @ \cup {bf.repo}]
               [] OTHER ->
                     IF buffer = <<>> THEN RepoDone(b0, None)
                     ELSE [b0 EXCEPT !.pc = "process", !.todo = reversed(buffer),
                                     !.newest_sha_processed_in_repo = None]
    /\ UNCHANGED <<LAST_PROCESSED_SHA, state_file, startup_state, upstream, runs, app,
                   handle_calls, handle_ok, last, requests, net, norm, coord, ident>>

\* variant: the stop condition reads the cursor map itself, not the snapshot
perform_backfill_fetch_reads_live_cursor(outcome) ==
    /\ bf.pc = "fetch"
    /\ Fault(outcome # "ok")
    /\ LET repo_full_name == MONITORED_REPOS[bf.repo]
           last_sha_for_repo == Get(LAST_PROCESSED_SHA, repo_full_name)
           buffer == commits_to_process_buffer(upstream[repo_full_name], last_sha_for_repo)
           b0 == [bf EXCEPT !.attempted = @ \cup {bf.repo}, !.fetches[bf.repo] = @ + 1]
       IN  bf' =
             CASE outcome = "rate_limit" ->
                     [b0 EXCEPT !.pc = "done", !.provider_ok = FALSE,
                                !.rate_limited = bf.repo]
               [] outcome \in {"github_error", "error"} ->
                     NextRepo([b0 EXCEPT !.provider_ok = FALSE, !.skipped = @ \cup {bf.repo}])
               [] OTHER ->
                     IF buffer = <<>> THEN RepoDone(b0, None)
                     ELSE [b0 EXCEPT !.pc = "process", !.todo = reversed(buffer),
                                     !.newest_sha_processed_in_repo = None]
    /\ UNCHANGED <<LAST_PROCESSED_SHA, state_file, startup_state, upstream, runs, app,
                   handle_calls, handle_ok, last, requests, net, norm, coord, ident>>

\* variant: a repository whose fetch failed with a provider error is
\* requested again instead of being skipped
perform_backfill_fetch_retries_on_error(outcome) ==
    /\ bf.pc = "fetch"
    /\ Fault(outcome # "ok")
    /\ LET repo_full_name == MONITORED_REPOS[bf.repo]
           last_sha_for_repo == Get(bf.current_state, repo_full_name)
           buffer == commits_to_process_buffer(upstream[repo_full_name], last_sha_for_repo)
           b0 == [bf EXCEPT !.attempted = @ \cup {bf.repo}, !.fetches[bf.repo] = @ + 1]
       IN  bf' =
             CASE outcome = "rate_limit" ->
                     [b0 EXCEPT !.pc = "done", !.provider_ok = FALSE,
                                !.rate_limited = bf.repo]
               [] outcome \in {"github_error", "error"} ->
                     [b0 EXCEPT !.provider_ok = FALSE]
               [] OTHER ->
                     IF buffer = <<>> THEN RepoDone(b0, None)
                     ELSE [b0 EXCEPT !.pc = "process", !.todo = reversed(buffer),
                                     !.newest_sha_processed_in_repo = None]
    /\ UNCHANGED <<LAST_PROCESSED_SHA, state_file, startup_state, upstream, runs, app,
                   handle_calls, handle_ok, last, requests, net, norm, coord, ident>>

\* backfill.py:36-64, 102-111  one repository: fetch and scan its history
perform_backfill_fetch(outcome) ==
    /\ bf.pc = "fetch"
    /\ Fault(outcome # "ok")
    /\ LET repo_full_name == MONITORED_REPOS[bf.repo]
           last_sha_for_repo == Get(bf.current_state, repo_full_name)
           buffer == commits_to_process_buffer(upstream[repo_full_name], last_sha_for_repo)
           b0 == [bf EXCEPT !.attempted = @ \cup {bf.repo}, !.fetches[bf.repo] = @ + 1]
       IN  bf' =
             CASE outcome = "rate_limit" ->
                     [b0 EXCEPT !.pc = "done", !.provider_ok = FALSE,
                                !.rate_limited = bf.repo]
               [] outcome \in {"github_error", "error"} ->
                     NextRepo([b0 EXCEPT !.provider_ok = FALSE, !.skipped = @ \cup {bf.repo}])
               [] OTHER ->
                     IF buffer = <<>> THEN RepoDone(b0, None)
                     ELSE [b0 EXCEPT !.pc = "process", !.todo = reversed(buffer),
                                     !.newest_sha_processed_in_repo = None]
    /\ UNCHANGED <<LAST_PROCESSED_SHA, state_file, startup_state, upstream, runs, app,
                   handle_calls, handle_ok, last, requests, net, norm, coord, ident>>

\* variant: the first commit that fails ends the repository's pass
perform_backfill_commit_aborts_pass(outcome) ==
    /\ bf.pc = "process"
    /\ Fault(outcome # "ok")
    /\ LET repo_full_name == MONITORED_REPOS[bf.repo]
           sha == Head(bf.todo)
           newest == IF outcome = "ok" THEN sha ELSE bf.newest_sha_processed_in_repo
           b1 == [bf EXCEPT
                    !.todo = Tail(@),
                    !.newest_sha_processed_in_repo = newest,
                    !.commits_ok = @ /\ outcome = "ok",
                    !.newest_ok = @ /\ (Tail(bf.todo) = <<>> => outcome = "ok"),
                    !.dropped = IF HandleCalled(outcome) THEN @
                                ELSE @ \cup {[repo |-> repo_full_name, sha |-> sha]},
                    !.log = IF HandleCalled(outcome)
                            THEN Append(@, [repo |-> repo_full_name, sha |-> sha,
                                            ok |-> outcome = "ok"])
                            ELSE @]
       IN  /\ bf' = IF Tail(bf.todo) = <<>> \/ outcome # "ok"
                    THEN RepoDone(b1, newest) ELSE b1
           /\ handle_calls' = IF HandleCalled(outcome)
                               THEN CountCalls(handle_calls, repo_full_name, <<sha>>)
                               ELSE handle_calls
           /\ handle_ok' = IF outcome = "ok"
                            THEN CountCalls(handle_ok, repo_full_name, <<sha>>)
                            ELSE handle_ok
    /\ UNCHANGED <<LAST_PROCESSED_SHA, state_file, startup_state, upstream, runs, app,
                   last, requests, net, norm, coord, ident>>

\* backfill.py:68-95  one commit of the reversed buffer
perform_backfill_commit(outcome) ==
    /\ bf.pc = "process"
    /\ Fault(outcome # "ok")
    /\ LET repo_full_name == MONITORED_REPOS[bf.repo]
           sha == Head(bf.todo)
           newest == IF outcome = "ok" THEN sha ELSE bf.newest_sha_processed_in_repo
           b1 == [bf EXCEPT
                    !.todo = Tail(@),
                    !.newest_sha_processed_in_repo = newest,
                    !.commits_ok = @ /\ outcome = "ok",
                    !.newest_ok = @ /\ (Tail(bf.todo) = <<>> => outcome = "ok"),
                    !.dropped = IF HandleCalled(outcome) THEN @
                                ELSE @ \cup {[repo |-> repo_full_name, sha |-> sha]},
                    !.log = IF HandleCalled(outcome)
                            THEN Append(@, [repo |-> repo_full_name, sha |-> sha,
                                            ok |-> outcome = "ok"])
                            ELSE @]
       IN  /\ bf' = IF Tail(bf.todo) = <<>> THEN RepoDone(b1, newest) ELSE b1
           /\ handle_calls' = IF HandleCalled(outcome)
                               THEN CountCalls(handle_calls, repo_full_name, <<sha>>)
                               ELSE handle_calls
           /\ handle_ok' = IF outcome = "ok"
                            THEN CountCalls(handle_ok, repo_full_name, <<sha>>)
                            ELSE handle_ok
    /\ UNCHANGED <<LAST_PROCESSED_SHA, state_file, startup_state, upstream, runs, app,
                   last, requests, net, norm, coord, ident>>

\* backfill.py:113-125  persistence loop over newest_sha_processed_overall_map
\* (dict order is insertion order: the order of MONITORED_REPOS), then return
PersistItems(b) ==
    {i \in b.persist..Len(MONITORED_REPOS) :
        b.newest_sha_processed_overall_map[MONITORED_REPOS[i]] # None}

perform_backfill_persist(write_ok) ==
    /\ bf.pc = "persist"
    /\ IF PersistItems(bf) = {}
       THEN /\ write_ok
            /\ bf' = [bf EXCEPT !.pc = "done"]
            /\ UNCHANGED <<LAST_PROCESSED_SHA, state_file, faults>>
       ELSE LET i == CHOOSE i \in PersistItems(bf) : \A j \in PersistItems(bf) : i <= j
                repo_full_name == MONITORED_REPOS[i]
                newest_sha == bf.newest_sha_processed_overall_map[repo_full_name]
            IN  /\ bf' = [bf EXCEPT !.persist = i + 1]
                /\ IF newest_sha # Get(bf.current_state, repo_full_name)
                   THEN /\ Fault(~write_ok)
                        /\ update_state_file(repo_full_name, newest_sha, write_ok)
                   ELSE /\ write_ok
                        /\ UNCHANGED <<LAST_PROCESSED_SHA, state_file, faults>>
    /\ UNCHANGED <<startup_state, upstream, runs, app, handle_calls, handle_ok,
                   last, requests, net, norm, coord, ident>>

\* -------------------------------------------------------------- webhook
\* webhook.py:18-37  verify_signature: TRUE when the request passes; a request
\* fails (HTTPException 403) when a secret is configured and the header is not
\* the HMAC-SHA256 of the body. sig_ok says whether the header matches.
verify_signature(req) ==
    IF GITHUB_WEBHOOK_SECRET = "" THEN TRUE ELSE req.sig_ok

\* variant: the entries of commits[] are the candidates whenever there are any
commits_to_process_list_first(req) ==
    IF req.commits # <<>> THEN req.commits
    ELSE IF req.head_commit.id # None THEN <<req.head_commit.id>>
    ELSE <<>>

\* webhook.py:88-102  commits_to_process and sha_to_update_state
commits_to_process(req) ==
    IF req.head_commit.id # None THEN <<req.head_commit.id>>
    ELSE req.commits

\* variant: the fallback takes the first entry of commits[] as the tip
sha_to_update_state_first_entry(req) ==
    IF req.head_commit.id # None THEN req.head_commit.id
    ELSE IF req.commits # <<>> THEN req.commits[1]
    ELSE None

\* webhook.py:86-97  the sha representing the push tip
sha_to_update_state(req) ==
    IF req.head_commit.id # None THEN req.head_commit.id
    ELSE IF req.commits # <<>> THEN req.commits[Len(req.commits)]
    ELSE None

\* variant: only a missing id is skipped, the stored sha is not compared
SkipCommit_missing_only(commit_sha, last_known_sha_for_repo) ==
    commit_sha = None

\* webhook.py:106-115  a candidate is skipped when it has no id or when its id
\* is the stored sha of the repository
SkipCommit(commit_sha, last_known_sha_for_repo) ==
    \/ commit_sha = None
    \/ (last_known_sha_for_repo # None /\ commit_sha = last_known_sha_for_repo)

\* the candidates that reach the inner try block, in payload order
RECURSIVE TriedFrom(_, _, _)
TriedFrom(cands, last_known_sha_for_repo, i) ==
    IF i > Len(cands) THEN <<>>
    ELSE (IF SkipCommit(cands[i], last_known_sha_for_repo) THEN <<>> ELSE <<cands[i]>>)
         \o TriedFrom(cands, last_known_sha_for_repo, i + 1)

Tried(req, last_known_sha_for_repo) ==
    TriedFrom(commits_to_process(req), last_known_sha_for_repo, 1)

\* variant: every event other than ping is processed like a push
Route_any_event_is_push(req) ==
    CASE req.event = "ping" -> "pong"
      [] req.repository.broken -> "error"
      [] req.repository.full_name = "" \/ ~req.repository.owner \/ ~req.repository.name
            -> "missing_repository"
      [] req.repository.full_name \notin Monitored -> "not_monitored"
      [] req.commits = <<>> /\ req.head_commit.kind # "dict" -> "no_commit_data"
      [] req.head_commit.kind = "null" -> "error"
      [] req.head_commit.id = None /\ req.commits = <<>> -> "no_processable"
      [] OTHER -> "loop"

\* variant: the repository is not looked up in MONITORED_REPOS
Route_any_repository(req) ==
    CASE req.event = "ping" -> "pong"
      [] req.event # "push" -> "ignored_event"
      [] req.repository.broken -> "error"
      [] req.repository.full_name = "" \/ ~req.repository.owner \/ ~req.repository.name
            -> "missing_repository"
      [] req.commits = <<>> /\ req.head_commit.kind # "dict" -> "no_commit_data"
      [] req.head_commit.kind = "null" -> "error"
      [] req.head_commit.id = None /\ req.commits = <<>> -> "no_processable"
      [] OTHER -> "loop"

\* webhook.py:50-102  the path a request takes before the commit loop:
\* the response it ends with, or "loop" when it reaches webhook.py:104
Route(req) ==
    CASE req.event = "ping" -> "pong"
      [] req.event # "push" -> "ignored_event"
      [] req.repository.broken -> "error"
      [] req.repository.full_name = "" \/ ~req.repository.owner \/ ~req.repository.name
            -> "missing_repository"
      [] req.repository.full_name \notin Monitored -> "not_monitored"
      [] req.commits = <<>> /\ req.head_commit.kind # "dict" -> "no_commit_data"
      [] req.head_commit.kind = "null" -> "error"
      [] req.head_commit.id = None /\ req.commits = <<>> -> "no_processable"
      [] OTHER -> "loop"

\* the status code of the response (the route's default is 202, webhook.py:40)
StatusOf(route) ==
    CASE route = "missing_repository" -> 400
      [] route = "error" -> 500
      [] OTHER -> 202

NoLast ==
    [req |-> [event |-> "none", sig_ok |-> TRUE,
              repository |-> [full_name |-> "", owner |-> FALSE, name |-> FALSE,
                              broken |-> FALSE],
              head_commit |-> [kind |-> "absent", id |-> None], commits |-> <<>>],
     route |-> "none", status |-> 0, cursor |-> None, tried |-> <<>>, outcomes |-> <<>>,
     changed |-> {}, file_changed |-> FALSE, write |-> "none"]

\* variant: the first candidate that fails ends the commit loop
github_webhook_stops_at_failure(req) ==
    /\ requests < MaxRequests
    /\ app.pc = "serving"
    /\ requests' = requests + 1
    /\ bf' = [bf EXCEPT !.quiet = FALSE]
    /\ LET route == Route(req)
           repo_full_name == req.repository.full_name
           last_known_sha_for_repo == Get(LAST_PROCESSED_SHA, repo_full_name)
           tried == IF route = "loop" THEN Tried(req, last_known_sha_for_repo) ELSE <<>>
           sha == sha_to_update_state(req)
       IN  \E outcomes \in [DOMAIN tried -> CommitOutcomes], write_ok \in BOOLEAN :
             LET reached == {i \in DOMAIN tried : \A j \in 1..(i - 1) : outcomes[j] = "ok"}
                 called == {i \in reached : HandleCalled(outcomes[i])}
                 failed == Cardinality({i \in DOMAIN tried : outcomes[i] # "ok"})
                           + IF write_ok THEN 0 ELSE 1
                 processed_new_commit == \E i \in DOMAIN tried : outcomes[i] = "ok"
                 write == /\ processed_new_commit
                          /\ sha # None
                          /\ sha # last_known_sha_for_repo
             IN  /\ faults + failed <= MaxFaults
                 /\ faults' = faults + failed
                 /\ write_ok \/ write
                 /\ IF write
                    THEN update_state_file(repo_full_name, sha, write_ok)
                    ELSE UNCHANGED <<LAST_PROCESSED_SHA, state_file>>
                 /\ handle_calls' =
                       IF called = {} THEN handle_calls
                       ELSE CountCalls(handle_calls, repo_full_name,
                                       [i \in called |-> tried[i]])
                 /\ handle_ok' =
                       IF processed_new_commit
                       THEN CountCalls(handle_ok, repo_full_name,
                                       [i \in {j \in reached : outcomes[j] = "ok"}
                                          |-> tried[i]])
                       ELSE handle_ok
                 /\ last' = [req |-> req, route |-> route, status |-> StatusOf(route),
                             cursor |-> last_known_sha_for_repo,
                             tried |-> tried, outcomes |-> outcomes,
                             changed |-> {r \in AllRepos :
                                            LAST_PROCESSED_SHA'[r] # LAST_PROCESSED_SHA[r]},
                             file_changed |-> state_file' # state_file,
                             write |-> IF ~write THEN "none"
                                       ELSE IF write_ok THEN "ok" ELSE "failed"]
    /\ UNCHANGED <<startup_state, upstream, runs, app, net, norm, coord, ident>>

\* webhook.py:40-173  one POST /github/webhook request, start to response.
\* outcomes[i] is what happens to the i-th candidate that is not skipped;
\* write_ok is whether the dump of the state file succeeds.
\* last records the request, the stored sha it was checked against and what
\* the request changed (write: whether update_state_file was called and whether
\* its dump succeeded).
github_webhook(req) ==
    /\ requests < MaxRequests
    /\ app.pc = "serving"
    /\ requests' = requests + 1
    /\ bf' = [bf EXCEPT !.quiet = FALSE]
    /\ LET route == Route(req)
           repo_full_name == req.repository.full_name
           last_known_sha_for_repo == Get(LAST_PROCESSED_SHA, repo_full_name)
           tried == IF route = "loop" THEN Tried(req, last_known_sha_for_repo) ELSE <<>>
           sha == sha_to_update_state(req)
       IN  \E outcomes \in [DOMAIN tried -> CommitOutcomes], write_ok \in BOOLEAN :
             LET called == {i \in DOMAIN tried : HandleCalled(outcomes[i])}
                 failed == Cardinality({i \in DOMAIN tried : outcomes[i] # "ok"})
                           + IF write_ok THEN 0 ELSE 1
                 processed_new_commit == \E i \in DOMAIN tried : outcomes[i] = "ok"
                 write == /\ processed_new_commit
                          /\ sha # None
                          /\ sha # last_known_sha_for_repo
             IN  /\ faults + failed <= MaxFaults
                 /\ faults' = faults + failed
                 /\ write_ok \/ write
                 /\ IF write
                    THEN update_state_file(repo_full_name, sha, write_ok)
                    ELSE UNCHANGED <<LAST_PROCESSED_SHA, state_file>>
                 /\ handle_calls' =
                       IF called = {} THEN handle_calls
                       ELSE CountCalls(handle_calls, repo_full_name,
                                       [i \in called |-> tried[i]])
                 /\ handle_ok' =
                       IF processed_new_commit
                       THEN CountCalls(handle_ok, repo_full_name,
                                       [i \in {j \in DOMAIN tried : outcomes[j] = "ok"}
                                          |-> tried[i]])
                       ELSE handle_ok
                 /\ last' = [req |-> req, route |-> route, status |-> StatusOf(route),
                             cursor |-> last_known_sha_for_repo,
                             tried |-> tried, outcomes |-> outcomes,
                             changed |-> {r \in AllRepos :
                                            LAST_PROCESSED_SHA'[r] # LAST_PROCESSED_SHA[r]},
                             file_changed |-> state_file' # state_file,
                             write |-> IF ~write THEN "none"
                                       ELSE IF write_ok THEN "ok" ELSE "failed"]
    /\ UNCHANGED <<startup_state, upstream, runs, app, net, norm, coord, ident>>

\* ------------------------------------------------------- normalization
\* a raw commit record of either feed. id is None when the hash is missing or
\* empty; a block (author, committer) is absent from the record, null, or an
\* object; the timestamp is absent, null, or a value. For a record read from
\* the provider (a PyGithub Commit) absent and null both mean the attribute
\* is None.
BlockKinds == {"absent", "null", "dict"}
TimestampKinds == {"absent", "null", "value"}
RawCommits == [id : MaybeSha, author : BlockKinds, committer : BlockKinds,
               timestamp : TimestampKinds]
Feeds == {"webhook", "backfill"}

NoCommit == [id |-> None, author |-> "absent", committer |-> "absent",
             timestamp |-> "absent"]
NoContents == [sha |-> None, author |-> "None", committer |-> "None", date |-> "None"]

\* what the loop body did with the record: "submitted" (the bundle reached
\* node.processor.handle), "skipped" (the loop's own check, webhook.py:107-109)
\* or "failed" (an exception caught by the per-commit except clause). contents
\* holds, for each optional part, "value" or the absent-value marker "None".
NormIdle == [pc |-> "idle", feed |-> "webhook", commit |-> NoCommit,
             status |-> "none", contents |-> NoContents]

\* webhook.py:105-148  the loop body for one entry of commits_to_process:
\* commit.get("author", {}) is {} only when the key is absent; for a null
\* value it is None and author.get("name") raises AttributeError inside the
\* inner try (webhook.py:123-134)
normalize_webhook_commit(commit) ==
    IF commit.id = None THEN [status |-> "skipped", contents |-> NoContents]
    ELSE IF commit.author = "null" \/ commit.committer = "null"
    THEN [status |-> "failed", contents |-> NoContents]
    ELSE [status |-> "submitted",
          contents |-> [sha |-> commit.id,
                        author |-> IF commit.author = "dict" THEN "value" ELSE "None",
                        committer |-> IF commit.committer = "dict" THEN "value" ELSE "None",
                        date |-> IF commit.timestamp = "value" THEN "value" ELSE "None"]]

\* backfill.py:68-95  the loop body for one record of the buffer:
\* GithubCommit(...) raises ValueError for an empty sha (types.py:21-22),
\* caught at backfill.py:94; "x.name if x else None" guards a None block
normalize_backfill_commit(commit) ==
    IF commit.id = None THEN [status |-> "failed", contents |-> NoContents]
    ELSE [status |-> "submitted",
          contents |-> [sha |-> commit.id,
                        author |-> IF commit.author = "dict" THEN "value" ELSE "None",
                        committer |-> IF commit.committer = "dict" THEN "value" ELSE "None",
                        date |-> IF commit.author = "dict" /\ commit.timestamp = "value"
                                 THEN "value" ELSE "None"]]

\* one record goes through the loop body of the webhook handler
webhook_commit ==
    /\ norm.pc = "raw"
    /\ norm.feed = "webhook"
    /\ LET result == normalize_webhook_commit(norm.commit)
       IN  norm' = [norm EXCEPT !.pc = "done", !.status = result.status,
                                !.contents = result.contents]
    /\ UNCHANGED <<sensor_vars, net, coord, ident>>

\* one record goes through the loop body of perform_backfill
backfill_commit ==
    /\ norm.pc = "raw"
    /\ norm.feed = "backfill"
    /\ LET result == normalize_backfill_commit(norm.commit)
       IN  norm' = [norm EXCEPT !.pc = "done", !.status = result.status,
                                !.contents = result.contents]
    /\ UNCHANGED <<sensor_vars, net, coord, ident>>

\* ------------------------------------------------------------- startup
\* server.py:30-54  lifespan up to its yield: register_handlers() and
\* node.start(); a failure is re-raised as RuntimeError and the app does not
\* start. Then asyncio.to_thread(perform_backfill) is called: the call makes a
\* coroutine object, which is bound to backfill_task and is neither awaited
\* nor wrapped in a task anywhere, so no thread is started for it.
lifespan(node_started) ==
    /\ app.pc = "starting"
    /\ faults' = faults
    /\ app' = IF node_started
              THEN [pc |-> "serving", backfill_task |-> "coroutine"]
              ELSE [pc |-> "failed", backfill_task |-> "none"]
    /\ UNCHANGED <<LAST_PROCESSED_SHA, state_file, startup_state, upstream, bf, runs,
                   handle_calls, handle_ok, last, requests, net, norm, coord, ident>>

\* ------------------------------------------------------ peer discovery
\* core.py:13  this node (node.identity.rid); the other nodes of the overlay
Self == "sensor"
Peers == {"coordinator", "peer"}
Rids == Peers \cup {Self}

\* the resource types of handlers/github.py: KoiNetNode (node discovery) and
\* GithubCommit (commits)
KoiNetNode == "KoiNetNode"
GithubCommit == "GithubCommit"

\* kobj.normalized_event_type
EventTypes == {"NEW", "UPDATE", "FORGET"}

\* kobj.bundle contents: valid says whether validate_contents(NodeProfile)
\* returns, event is profile.provides.event
NodeProfiles ==
    {[valid |-> FALSE, event |-> {}]}
    \cup {[valid |-> TRUE, event |-> e] : e \in SUBSET {KoiNetNode, GithubCommit}}

\* the KoiNetNode knowledge objects that reach the Network phase
KnowledgeObjects == [rid : Peers, normalized_event_type : EventTypes, profile : NodeProfiles]

NoKobj == [rid |-> Self, normalized_event_type |-> "none",
           profile |-> [valid |-> FALSE, event |-> {}]]

\* generate_edge_bundle(...) followed by processor.handle(bundle=...): both
\* return, generate_edge_bundle raises, or handle raises
EdgeOutcomes == {"ok", "generate_error", "handle_error"}

\* variant: source and target of the edge are exchanged
ProposeEdge_reversed(proposals, source, target, rid_types, outcome) ==
    IF outcome = "generate_error" THEN proposals
    ELSE Append(proposals, [source |-> target, target |-> source, edge_type |-> "WEBHOOK",
                            rid_types |-> rid_types, ok |-> outcome = "ok"])

\* handlers/github.py:44-50, 125-132  the edge bundles passed to
\* processor.handle after one more proposal
ProposeEdge(proposals, source, target, rid_types, outcome) ==
    IF outcome = "generate_error" THEN proposals
    ELSE Append(proposals, [source |-> source, target |-> target, edge_type |-> "WEBHOOK",
                            rid_types |-> rid_types, ok |-> outcome = "ok"])

\* handlers/github.py:57  result of fetch_rids: it raises, returns nothing,
\* or returns a payload with a list of rids
SyncResults ==
    {[kind |-> "raises", rids |-> <<>>], [kind |-> "none", rids |-> <<>>]}
    \cup {[kind |-> "payload", rids |-> q] :
             q \in UNION {[1..k -> Rids] : k \in 0..MaxRids}}

\* handlers/github.py:63-66  the rids of the payload that are neither this
\* node nor in the cache, in payload order
RECURSIVE EligibleFrom(_, _, _)
EligibleFrom(rids, cache, i) ==
    IF i > Len(rids) THEN <<>>
    ELSE (IF rids[i] = Self \/ rids[i] \in cache THEN <<>> ELSE <<rids[i]>>)
         \o EligibleFrom(rids, cache, i + 1)

\* variant: only this node's own rid is left out, the cache is not consulted
Eligible_skips_self_only(rids, cache) == EligibleFrom(rids, {}, 1)

Eligible(rids, cache) == EligibleFrom(rids, cache, 1)

\* fetch_rids was not called
NotCalled == [kind |-> "not_called", rids |-> <<>>]

NetIdle(neighbors, cache) ==
    [pc |-> "idle",            \* "final": the Network phase is over, the Final phase is due
     kobj |-> NoKobj,          \* the event being handled, or handled last
     neighbors |-> neighbors,  \* processor.network.graph.get_neighbors()
     cache |-> cache,          \* the rids for which processor.cache.exists
     events |-> 0,             \* number of events so far
     \* history of the event, for the properties below
     proposals |-> <<>>,       \* edge bundles passed to processor.handle(bundle=...)
     rid_requests |-> <<>>,    \* rids passed to processor.handle(rid=...) in the Network phase
     known_peers |-> {},       \* what the Final-phase handler read from the graph
     failed |-> FALSE,         \* a collaborator raised while the event was handled
     edge_outcome |-> "ok",    \* what the discovery edge proposal did (handlers/github.py:44-50)
     sync |-> NotCalled,       \* what fetch_rids returned, if it was called
     request_failed |-> FALSE, \* a processor.handle(rid=...) call raised
     again |-> FALSE,          \* the event before was a NEW event of the same peer for
                               \* which the discovery edge was proposed
     escaped |-> FALSE]        \* an exception left a handler

\* variant: the emitted event types of the profile are not looked at
Accepted_any_valid_profile(kobj) ==
    /\ kobj.normalized_event_type = "NEW"
    /\ kobj.profile.valid

\* handlers/github.py:27-39  the event passes the three early returns: it is
\* NEW, its profile validates and the profile provides KoiNetNode events
Accepted(kobj) ==
    /\ kobj.normalized_event_type = "NEW"
    /\ kobj.profile.valid
    /\ KoiNetNode \in kobj.profile.event

\* variant: the handler returns when the edge proposal fails
coordinator_contact_edge_failure_returns(kobj, edge_outcome, sync, fail_at) ==
    /\ net.pc = "idle"
    /\ net.events < MaxEvents
    /\ LET accepted == Accepted(kobj)
           synced == accepted /\ edge_outcome = "ok" /\ sync.kind = "payload"
           eligible == IF synced THEN Eligible(sync.rids, net.cache) ELSE <<>>
       IN  /\ ~accepted => (edge_outcome = "ok" /\ sync.kind = "none")
           /\ fail_at <= Len(eligible)
           /\ net' = [net EXCEPT
                        !.pc = "final",
                        !.kobj = kobj,
                        !.events = @ + 1,
                        !.proposals =
                            IF accepted
                            THEN ProposeEdge(<<>>, kobj.rid, Self, {KoiNetNode}, edge_outcome)
                            ELSE <<>>,
                        !.rid_requests =
                            IF fail_at = 0 THEN eligible ELSE SubSeq(eligible, 1, fail_at),
                        !.known_peers = {},
                        !.failed = accepted /\ (\/ edge_outcome # "ok"
                                                \/ sync.kind = "raises"
                                                \/ fail_at # 0),
                        !.edge_outcome = edge_outcome,
                        !.sync = IF accepted /\ edge_outcome = "ok" THEN sync ELSE NotCalled,
                        !.request_failed = fail_at # 0,
                        !.again = /\ net.events > 0
                                  /\ net.kobj.rid = kobj.rid
                                  /\ net.kobj.normalized_event_type = "NEW"
                                  /\ \E n \in DOMAIN net.proposals :
                                        /\ net.proposals[n].source = kobj.rid
                                        /\ net.proposals[n].target = Self
                                        /\ net.proposals[n].rid_types = {KoiNetNode},
                        !.escaped = FALSE]
    /\ UNCHANGED <<sensor_vars, norm, coord, ident>>

\* handlers/github.py:19-71  Network-phase handler of a KoiNetNode event.
\* fail_at is the position, among the rids handed on, of the
\* processor.handle(rid=...) call that raises (0: none does).
coordinator_contact(kobj, edge_outcome, sync, fail_at) ==
    /\ net.pc = "idle"
    /\ net.events < MaxEvents
    /\ LET accepted == Accepted(kobj)
           synced == accepted /\ sync.kind = "payload"
           eligible == IF synced THEN Eligible(sync.rids, net.cache) ELSE <<>>
       IN  /\ ~accepted => (edge_outcome = "ok" /\ sync.kind = "none")
           /\ fail_at <= Len(eligible)
           /\ net' = [net EXCEPT
                        !.pc = "final",
                        !.kobj = kobj,
                        !.events = @ + 1,
                        !.proposals =
                            IF accepted
                            THEN ProposeEdge(<<>>, kobj.rid, Self, {KoiNetNode}, edge_outcome)
                            ELSE <<>>,
                        !.rid_requests =
                            IF fail_at = 0 THEN eligible ELSE SubSeq(eligible, 1, fail_at),
                        !.known_peers = {},
                        !.failed = accepted /\ (\/ edge_outcome # "ok"
                                                \/ sync.kind = "raises"
                                                \/ fail_at # 0),
                        !.edge_outcome = edge_outcome,
                        !.sync = IF accepted THEN sync ELSE NotCalled,
                        !.request_failed = fail_at # 0,
                        !.again = /\ net.events > 0
                                  /\ net.kobj.rid = kobj.rid
                                  /\ net.kobj.normalized_event_type = "NEW"
                                  /\ \E n \in DOMAIN net.proposals :
                                        /\ net.proposals[n].source = kobj.rid
                                        /\ net.proposals[n].target = Self
                                        /\ net.proposals[n].rid_types = {KoiNetNode},
                        !.escaped = FALSE]
    /\ UNCHANGED <<sensor_vars, norm, coord, ident>>

\* the pipeline between the two phases: the library updates the graph
\* (handlers/github.py:114), to any set of neighbours
graph_update(neighbors) ==
    /\ net.pc = "final"
    /\ net.neighbors # neighbors
    /\ net' = [net EXCEPT !.neighbors = neighbors]
    /\ UNCHANGED <<sensor_vars, norm, coord, ident>>

\* variant: the node is taken for the coordinator whenever it is a neighbour
IsCoordinator_any_neighbor(known_peers, rid) ==
    rid \in known_peers

\* variant: one neighbour is enough, whoever it is
IsCoordinator_single_neighbor(known_peers, rid) ==
    Cardinality(known_peers) = 1

\* handlers/github.py:122  len(known_peers) == 1 and known_peers[0] == kobj.rid
IsCoordinator(known_peers, rid) ==
    Cardinality(known_peers) = 1 /\ rid \in known_peers

\* handlers/github.py:112-134  Final-phase handler of a KoiNetNode event.
\* graph_ok is whether get_neighbors() returns; it is called outside any try
\* block, so its exception leaves the handler.
propose_github_commit_edge_to_coordinator(graph_ok, outcome) ==
    /\ net.pc = "final"
    /\ LET kobj == net.kobj
           is_new == kobj.normalized_event_type = "NEW"
           proposes == is_new /\ graph_ok /\ IsCoordinator(net.neighbors, kobj.rid)
       IN  /\ ~is_new => graph_ok
           /\ ~proposes => outcome = "ok"
           /\ net' = [net EXCEPT
                        !.pc = "idle",
                        !.known_peers = IF is_new /\ graph_ok THEN net.neighbors ELSE {},
                        !.proposals =
                            IF proposes
                            THEN ProposeEdge(@, Self, kobj.rid, {GithubCommit}, outcome)
                            ELSE @,
                        !.failed = @ \/ ~graph_ok \/ outcome # "ok",
                        \* the record of the Network phase ends with the event
                        !.rid_requests = <<>>,
                        !.edge_outcome = "ok",
                        !.sync = NotCalled,
                        !.request_failed = FALSE,
                        !.again = FALSE,
                        !.escaped = ~graph_ok]
    /\ UNCHANGED <<sensor_vars, norm, coord, ident>>

\* ------------------------------------------------------- commit identity
\* types.py: strings are sequences of characters; one ordinary character and
\* the separator are enough to tell the cases of the code apart
Chars == {"a", "/"}
Strings(n) == UNION {[1..k -> Chars] : k \in 0..n}

Contains(str, ch) == \E i \in DOMAIN str : str[i] = ch

\* no identity: the constructor raised ValueError
NoIdentity == [ok |-> FALSE, owner |-> <<>>, repo |-> <<>>, sha |-> <<>>]

\* variant: the separator check of owner and repo is left out
GithubCommit_init_no_separator_check(owner, repo, sha) ==
    IF owner = <<>> \/ repo = <<>> \/ sha = <<>> THEN NoIdentity
    ELSE [ok |-> TRUE, owner |-> owner, repo |-> repo, sha |-> sha]

\* types.py:12-29  GithubCommit.__init__
GithubCommit_init(owner, repo, sha) ==
    IF owner = <<>> \/ repo = <<>> \/ sha = <<>> THEN NoIdentity
    ELSE IF Contains(owner, "/") \/ Contains(repo, "/") THEN NoIdentity
    ELSE [ok |-> TRUE, owner |-> owner, repo |-> repo, sha |-> sha]

\* types.py:31-34  the reference property: f"{owner}/{repo}/{sha}"
reference(self) == self.owner \o <<"/">> \o self.repo \o <<"/">> \o self.sha

\* str.split("/", maxsplit): cut at the first maxsplit separators
RECURSIVE split(_, _)
split(str, maxsplit) ==
    IF maxsplit = 0 \/ ~Contains(str, "/") THEN <<str>>
    ELSE LET i == CHOOSE i \in DOMAIN str :
                      str[i] = "/" /\ \A j \in 1..(i - 1) : str[j] # "/"
         IN  <<SubSeq(str, 1, i - 1)>> \o split(SubSeq(str, i + 1, Len(str)), maxsplit - 1)

\* types.py:76  the shortest sha from_reference accepts
MinShaLen == 7

\* types.py:51-84  GithubCommit.from_reference; every failure is a ValueError
from_reference(ref) ==
    LET parts == split(ref, 2)
    IN  IF Len(parts) # 3 THEN NoIdentity
        ELSE IF parts[1] = <<>> \/ parts[2] = <<>> \/ parts[3] = <<>> THEN NoIdentity
        ELSE IF Len(parts[3]) < MinShaLen THEN NoIdentity
        ELSE GithubCommit_init(parts[1], parts[2], parts[3])

IdentIdle == [pc |-> "idle", owner |-> <<>>, repo |-> <<>>, sha |-> <<>>,
              self |-> NoIdentity, parsed |-> NoIdentity]

\* webhook.py:118-148, backfill.py:69-95  the try block of one commit: the
\* identity is constructed first, and the bundle is submitted under it only
\* if the constructor returned
submit_commit ==
    /\ ident.pc = "args"
    /\ LET rid == GithubCommit_init(ident.owner, ident.repo, ident.sha)
       IN  ident' = [ident EXCEPT !.pc = IF rid.ok THEN "submitted" ELSE "rejected",
                                  !.self = rid]
    /\ UNCHANGED <<sensor_vars, net, norm, coord>>

\* the identity is serialized and read back: from_reference(rid.reference)
parse_reference ==
    /\ ident.pc = "submitted"
    /\ LET rid == from_reference(reference(ident.self))
       IN  ident' = [ident EXCEPT !.pc = IF rid.ok THEN "parsed" ELSE "unparsed",
                                  !.parsed = rid]
    /\ UNCHANGED <<sensor_vars, net, norm, coord>>

\* ------------------------------------------------- coordinator handshake
\* coordinator/node/handlers/network.py: the coordinator node, the nodes that
\* contact it, and the second resource type its edges cover
CoordinatorRid == "coordinator"
CoordinatorPeers == {Self, "peer"}
KoiNetEdge == "KoiNetEdge"

\* kobj.event_type is None for a knowledge object that did not come from an event
CoordinatorKnowledgeObjects ==
    [rid : CoordinatorPeers, event_type : EventTypes \cup {"None"}, profile : NodeProfiles]

NoCoordinatorKobj == [rid |-> CoordinatorRid, event_type |-> "None",
                      profile |-> [valid |-> FALSE, event |-> {}]]

CoordIdle == [events |-> 0, kobj |-> NoCoordinatorKobj, calls |-> <<>>, raised |-> FALSE]

\* the four calls of network.py:22-36, in program order
HandshakeSteps == <<"push_event_to", "generate_edge_bundle", "handle_rid", "handle_bundle">>

\* network.py:22-26, 29-34, 35, 36  what the handler asks of its collaborators
\* at each step (generate_edge_bundle only builds the bundle)
HandshakeCall(kobj, step, ok) ==
    CASE step = "push_event_to" ->
            [call |-> step, node |-> kobj.rid, event_type |-> "NEW",
             bundle |-> CoordinatorRid, flush |-> TRUE, ok |-> ok]
      [] step = "handle_rid" ->
            [call |-> step, source |-> kobj.rid, target |-> CoordinatorRid,
             event_type |-> "FORGET", ok |-> ok]
      [] OTHER ->
            [call |-> step, source |-> kobj.rid, target |-> CoordinatorRid,
             edge_type |-> "WEBHOOK", rid_types |-> {KoiNetNode, KoiNetEdge}, ok |-> ok]

\* the calls made when the fail_at-th step raises (0: none does): nothing in
\* the handler catches, so the steps after it are not reached
RECURSIVE HandshakeFrom(_, _, _)
HandshakeFrom(kobj, fail_at, i) ==
    IF i > Len(HandshakeSteps) THEN <<>>
    ELSE (IF HandshakeSteps[i] = "generate_edge_bundle" THEN <<>>
          ELSE <<HandshakeCall(kobj, HandshakeSteps[i], fail_at # i)>>)
         \o (IF fail_at = i THEN <<>> ELSE HandshakeFrom(kobj, fail_at, i + 1))

\* variant: the peer's profile is validated first, as the sensor's handler does
HandshakeCalls_checks_capabilities(kobj, fail_at) ==
    IF kobj.event_type # "NEW" THEN <<>>
    ELSE IF ~kobj.profile.valid \/ KoiNetNode \notin kobj.profile.event THEN <<>>
    ELSE HandshakeFrom(kobj, fail_at, 1)

\* network.py:18-36  the calls of one handshake_handler invocation
HandshakeCalls(kobj, fail_at) ==
    IF kobj.event_type # "NEW" THEN <<>>
    ELSE HandshakeFrom(kobj, fail_at, 1)

\* network.py:14-36  Network-phase handler of a KoiNetNode event on the
\* coordinator
handshake_handler(kobj, fail_at) ==
    /\ coord.events < MaxEvents
    /\ kobj.event_type # "NEW" => fail_at = 0
    /\ coord' = [events |-> coord.events + 1,
                 kobj |-> kobj,
                 calls |-> HandshakeCalls(kobj, fail_at),
                 raised |-> fail_at # 0]
    /\ UNCHANGED <<sensor_vars, net, norm, ident>>

\* ------------------------------------------------------------- inputs
\* payload["repository"]: full_name ("": missing or empty), owner (whether
\* owner.login or owner.name is non-empty), name (whether non-empty), and
\* broken: "repository" or its "owner" is not a JSON object (null, a string),
\* so that a .get() on it raises AttributeError (webhook.py:65-66)
RepositoryBlocks ==
    {[full_name |-> f, owner |-> TRUE, name |-> TRUE, broken |-> FALSE] : f \in AllRepos}
    \cup {[full_name |-> "", owner |-> TRUE, name |-> TRUE, broken |-> FALSE],
          [full_name |-> MONITORED_REPOS[1], owner |-> FALSE, name |-> TRUE, broken |-> FALSE],
          [full_name |-> MONITORED_REPOS[1], owner |-> TRUE, name |-> FALSE, broken |-> FALSE],
          [full_name |-> MONITORED_REPOS[1], owner |-> TRUE, name |-> TRUE, broken |-> TRUE],
          \* "owner": null
          [full_name |-> MONITORED_REPOS[1], owner |-> FALSE, name |-> TRUE, broken |-> TRUE]}

HeadCommits ==
    {[kind |-> "absent", id |-> None], [kind |-> "null", id |-> None]}
    \cup {[kind |-> "dict", id |-> s] : s \in MaybeSha}

SeqsUpTo(S, n) == UNION {[1..k -> S] : k \in 0..n}

Events == {"ping", "push", "issues"}

Payloads == [head_commit : HeadCommits, commits : SeqsUpTo(MaybeSha, MaxCommits)]

\* the payloads tried on requests that never reach the commit fields
SamplePayloads ==
    {p \in Payloads : p.head_commit.id <= 1 /\ p.commits \in {<<>>, <<1>>}}

Request(event, sig_ok, repository, payload) ==
    [event |-> event, sig_ok |-> sig_ok, repository |-> repository,
     head_commit |-> payload.head_commit, commits |-> payload.commits]

WellFormed(full_name) ==
    [full_name |-> full_name, owner |-> TRUE, name |-> TRUE, broken |-> FALSE]

\* pushes to a monitored repository carry every payload; every other request
\* (another event, a malformed or unmonitored repository) a sample payload
Requests ==
    {Request("push", s, WellFormed(f), p) : s \in BOOLEAN, f \in Monitored, p \in Payloads}
    \cup {Request(e, s, b, p) : e \in Events \ {"push"}, s \in BOOLEAN,
                                b \in RepositoryBlocks, p \in SamplePayloads}
    \cup {Request("push", s, b, p) : s \in BOOLEAN,
                                     b \in RepositoryBlocks \ {WellFormed(f) : f \in Monitored},
                                     p \in SamplePayloads}

\* the requests of the interleaved specification: well-formed pushes to the
\* first monitored repository that name one commit, as head_commit or as the
\* only entry of commits[]
CoreRequests ==
    {Request("push", TRUE, WellFormed(MONITORED_REPOS[1]), p) :
        p \in {q \in Payloads :
                 \/ q.head_commit.kind = "dict" /\ q.head_commit.id # None /\ q.commits = <<>>
                 \/ q.head_commit.kind = "absent" /\ Len(q.commits) = 1
                                                  /\ q.commits[1] # None}}

\* the requests of the cursor-store specification: well-formed signed pushes
\* to either monitored repository with a head_commit and no commits[]
StoreRequests ==
    {Request("push", TRUE, WellFormed(f),
             [head_commit |-> [kind |-> "dict", id |-> s], commits |-> <<>>]) :
        f \in Monitored, s \in Shas}

\* the pushes GitHub sends for a branch update: commits[] is a run of up to
\* MaxCommits consecutive commits, oldest first, and head_commit, when the
\* notification carries it, is the last of them
PushRun(h, n) == [i \in 1..n |-> h - n + i]

BranchPushes ==
    UNION {{[head_commit |-> [kind |-> k, id |-> IF k = "dict" THEN h ELSE None],
             commits |-> PushRun(h, n)] :
               k \in {"dict", "absent"}, n \in {m \in 1..MaxCommits : m <= h}} :
           h \in Shas}

\* the requests of the race specification: signed branch pushes to the first
\* monitored repository, and to a repository that is not monitored
RaceRequests ==
    {Request("push", TRUE, WellFormed(f), p) :
        f \in {MONITORED_REPOS[1], OtherRepo}, p \in BranchPushes}

\* the state files a process can find at startup
StateFiles(shas) ==
    {[status |-> "missing", data |-> EmptyDict], [status |-> "corrupt", data |-> EmptyDict]}
    \cup {[status |-> "ok", data |-> [r \in AllRepos |-> IF r = OtherRepo THEN o ELSE d[r]]] :
             d \in [Monitored -> shas], o \in 0..1}

\* state files that exist but do not load: truncated or otherwise invalid
\* JSON (json.JSONDecodeError), a file that cannot be opened or read (OSError),
\* valid JSON that is not an object (the .keys() call of config.py:80 raises).
\* data is the mapping the bytes would spell to a reader that ignored the damage.
DamagedFiles ==
    {[status |-> st,
      data |-> [r \in AllRepos |-> IF r = MONITORED_REPOS[1] THEN 1 ELSE None]] :
        st \in {"corrupt", "unreadable", "not_object"}}

\* ------------------------------------------------------- specification
\* the process after its modules are imported: config.py:108 has run
\* load_state(), nothing has been submitted, perform_backfill is not running
InitFrom(files, histories) ==
    /\ state_file \in files
    /\ LAST_PROCESSED_SHA = load_state(state_file)
    /\ startup_state = LAST_PROCESSED_SHA
    /\ upstream \in [Monitored -> histories]
    /\ bf = BfIdle
    /\ runs = 0
    /\ app = [pc |-> "starting", backfill_task |-> "none"]
    /\ handle_calls = [r \in Monitored |-> [s \in Shas |-> 0]]
    /\ handle_ok = [r \in Monitored |-> [s \in Shas |-> 0]]
    /\ last = NoLast
    /\ requests = 0
    /\ faults = 0

Startup == \E node_started \in BOOLEAN : lifespan(node_started)
BackfillStart == perform_backfill_start
BackfillFetch == \E outcome \in FetchOutcomes : perform_backfill_fetch(outcome)
BackfillCommit == \E outcome \in CommitOutcomes : perform_backfill_commit(outcome)
BackfillPersist == \E write_ok \in BOOLEAN : perform_backfill_persist(write_ok)
Webhook == \E req \in CoreRequests : github_webhook(req)
WebhookAny == \E req \in Requests : github_webhook(req)

\* the whole node: startup, backfill runs and push notifications interleaved
Init ==
    /\ InitFrom(StateFiles(0..1), {History(MaxSha - 1)})
    /\ net = NetIdle({}, {})
    /\ norm = NormIdle
    /\ coord = CoordIdle
    /\ ident = IdentIdle

Next ==
    \/ Startup
    \/ BackfillStart
    \/ BackfillFetch
    \/ BackfillCommit
    \/ BackfillPersist
    \/ Webhook

Spec == Init /\ [][Next]_vars

\* the same, with the progress the event loop and the worker thread make:
\* the lifespan runs, and a perform_backfill call that has begun runs on
FairSpec ==
    /\ Spec
    /\ WF_vars(Startup)
    /\ WF_vars(BackfillFetch \/ BackfillCommit \/ BackfillPersist)

\* backfill runs alone, over every stored cursor and every upstream history
BackfillInit ==
    /\ InitFrom(StateFiles(MaybeSha) \cup DamagedFiles, {History(n) : n \in 0..MaxSha})
    /\ net = NetIdle({}, {})
    /\ norm = NormIdle
    /\ coord = CoordIdle
    /\ ident = IdentIdle

BackfillNext ==
    \/ BackfillStart
    \/ BackfillFetch
    \/ BackfillCommit
    \/ BackfillPersist

BackfillSpec == BackfillInit /\ [][BackfillNext]_vars

\* the request-serving path alone: one request, over every request and every
\* stored cursor
LiveInit ==
    /\ InitFrom(StateFiles(MaybeSha), {History(MaxSha)})
    /\ net = NetIdle({}, {})
    /\ norm = NormIdle
    /\ coord = CoordIdle
    /\ ident = IdentIdle

LiveNext ==
    \/ Startup
    \/ (requests = 0 /\ WebhookAny)

LiveSpec == LiveInit /\ [][LiveNext]_vars

\* the cursor store under the set calls of successive pushes
WebhookPush == \E req \in StoreRequests : github_webhook(req)

StoreInit ==
    /\ InitFrom(StateFiles(0..1), {History(MaxSha)})
    /\ net = NetIdle({}, {})
    /\ norm = NormIdle
    /\ coord = CoordIdle
    /\ ident = IdentIdle

StoreNext ==
    \/ Startup
    \/ WebhookPush

StoreSpec == StoreInit /\ [][StoreNext]_vars

\* the KoiNetNode handlers alone: events over every peer, profile and graph
\* an event that is discarded calls no collaborator: one choice of outcomes
\* stands for all of them
CoordinatorContact ==
    \E kobj \in KnowledgeObjects :
        \E edge_outcome \in IF Accepted(kobj) THEN EdgeOutcomes ELSE {"ok"},
           sync \in IF Accepted(kobj) THEN SyncResults
                    ELSE {[kind |-> "none", rids |-> <<>>]} :
            \E fail_at \in 0..Len(sync.rids) :
                coordinator_contact(kobj, edge_outcome, sync, fail_at)
GraphUpdate == \E neighbors \in SUBSET Peers : graph_update(neighbors)
ProposeCommitEdge ==
    \E graph_ok \in BOOLEAN, outcome \in EdgeOutcomes :
        propose_github_commit_edge_to_coordinator(graph_ok, outcome)

PeerInit ==
    /\ InitFrom({[status |-> "missing", data |-> EmptyDict]}, {History(0)})
    /\ net \in {NetIdle(neighbors, cache) : neighbors \in SUBSET Peers, cache \in SUBSET Peers}
    /\ norm = NormIdle
    /\ coord = CoordIdle
    /\ ident = IdentIdle

PeerNext ==
    \/ CoordinatorContact
    \/ GraphUpdate
    \/ ProposeCommitEdge

PeerSpec == PeerInit /\ [][PeerNext]_vars

\* one perform_backfill run and one branch push, the push arriving before,
\* during or after the run
RacePush == \E req \in RaceRequests : github_webhook(req)

RaceInit ==
    /\ InitFrom(StateFiles(0..1), {History(MaxSha)})
    /\ net = NetIdle({}, {})
    /\ norm = NormIdle
    /\ coord = CoordIdle
    /\ ident = IdentIdle

RaceNext ==
    \/ Startup
    \/ (runs = 0 /\ BackfillStart)
    \/ BackfillFetch
    \/ BackfillCommit
    \/ BackfillPersist
    \/ (requests = 0 /\ RacePush)

RaceSpec == RaceInit /\ [][RaceNext]_vars

\* the coordinator's handshake handler, over every event and every failure
Handshake ==
    \E kobj \in CoordinatorKnowledgeObjects, fail_at \in 0..Len(HandshakeSteps) :
        handshake_handler(kobj, fail_at)

HandshakeInit ==
    /\ InitFrom({[status |-> "missing", data |-> EmptyDict]}, {History(0)})
    /\ net = NetIdle({}, {})
    /\ norm = NormIdle
    /\ coord = CoordIdle
    /\ ident = IdentIdle

HandshakeNext == Handshake

HandshakeSpec == HandshakeInit /\ [][HandshakeNext]_vars

\* every kind of handling with the progress its caller makes: a
\* perform_backfill call that has begun runs on in its worker thread
\* (server.py: asyncio.to_thread), and the pipeline that ran the Network-phase
\* handler of an event runs its Final-phase handler. The sensor's operations
\* and the peer events share no state, so a behaviour follows one or the
\* other: one backfill run and one push notification in any interleaving, or
\* one peer event.
HandlingInit ==
    /\ \/ /\ InitFrom(StateFiles(0..1), {History(MaxSha - 1)})
          /\ net = NetIdle({}, {})
       \/ /\ InitFrom({[status |-> "missing", data |-> EmptyDict]}, {History(MaxSha - 1)})
          /\ net \in {NetIdle(neighbors, cache) : neighbors \in SUBSET Peers,
                                                  cache \in SUBSET Peers}
    /\ norm = NormIdle
    /\ coord = CoordIdle
    /\ ident = IdentIdle

HandlingNext ==
    \/ (net = NetIdle({}, {}) /\ Startup)
    \/ (net = NetIdle({}, {}) /\ runs = 0 /\ BackfillStart)
    \/ BackfillFetch
    \/ BackfillCommit
    \/ BackfillPersist
    \/ (net = NetIdle({}, {}) /\ requests = 0 /\ Webhook)
    \/ (app.pc = "starting" /\ runs = 0 /\ requests = 0 /\ net.events = 0 /\ CoordinatorContact)
    \/ GraphUpdate
    \/ ProposeCommitEdge

HandlingSpec ==
    /\ HandlingInit
    /\ [][HandlingNext]_vars
    /\ WF_vars(BackfillFetch \/ BackfillCommit \/ BackfillPersist)
    /\ WF_vars(ProposeCommitEdge)

\* commit identities: every owner, repository name and sha up to the bounds
IdentityInit ==
    /\ InitFrom({[status |-> "missing", data |-> EmptyDict]}, {History(0)})
    /\ net = NetIdle({}, {})
    /\ norm = NormIdle
    /\ coord = CoordIdle
    /\ ident \in {[IdentIdle EXCEPT !.pc = "args", !.owner = o, !.repo = r, !.sha = h] :
                     o \in Strings(MaxNameLen), r \in Strings(MaxNameLen),
                     h \in Strings(MaxShaLen)}

IdentityNext ==
    \/ submit_commit
    \/ parse_reference

IdentitySpec == IdentityInit /\ [][IdentityNext]_vars

\* the commit normalizer: one raw record of either feed, any shape
NormalizeInit ==
    /\ InitFrom({[status |-> "missing", data |-> EmptyDict]}, {History(0)})
    /\ net = NetIdle({}, {})
    /\ norm \in {[NormIdle EXCEPT !.pc = "raw", !.feed = f, !.commit = c] :
                    f \in Feeds, c \in RawCommits}
    /\ coord = CoordIdle
    /\ ident = IdentIdle

NormalizeNext ==
    \/ webhook_commit
    \/ backfill_commit

NormalizeSpec == NormalizeInit /\ [][NormalizeNext]_vars

\* =================================================================== claims
\* helpers of the properties (not part of the program)
InHistory(repo, sha) == \E i \in DOMAIN upstream[repo] : upstream[repo][i] = sha

\* the shas, in call order, that this backfill run passed to Processor.handle
\* for repo
RunCalls(repo) ==
    LET idx == {k \in DOMAIN bf.log : bf.log[k].repo = repo}
        RECURSIVE Take(_)
        Take(k) == IF k > Len(bf.log) THEN <<>>
                   ELSE (IF k \in idx THEN <<bf.log[k].sha>> ELSE <<>>) \o Take(k + 1)
    IN  Take(1)

RunSubmittedOk(repo, sha) ==
    \E k \in DOMAIN bf.log : bf.log[k].repo = repo /\ bf.log[k].sha = sha /\ bf.log[k].ok

\* the perform_backfill run has been through the persistence step of the
\* i-th monitored repository and wrote its cursor there
BackfillAdvanced(i) ==
    LET repo == MONITORED_REPOS[i]
        newest == bf.newest_sha_processed_overall_map[repo]
    IN  /\ bf.pc \in {"persist", "done"}
        /\ bf.persist > i
        /\ newest # None
        /\ newest # Get(bf.current_state, repo)

\* the last request was a push for a monitored repository with all
\* repository fields present
LastIsMonitoredPush ==
    /\ last.req.event = "push"
    /\ last.req.repository \in {WellFormed(f) : f \in Monitored}

\* the candidates of the last request that were passed to Processor.handle
LastSubmitted == {i \in DOMAIN last.tried : HandleCalled(last.outcomes[i])}

\* ---------------------------------------------------------------------- C1
\* C1: within one process lifetime no commit identity (repo, sha) is submitted
\* to Processor.handle more than once, whatever the order of backfill runs and
\* push notifications. Stated on the calls that returned normally; counting
\* the calls that raised as well can only add to the count.
C1_AtMostOncePerIdentity ==
    \A r \in Monitored, s \in Shas : handle_ok[r][s] <= 1

\* ---------------------------------------------------------------------- C2
\* C2: a stored cursor that differs from the value loaded at startup is the
\* hash of a commit whose Processor.handle call returned without raising.
C2_CursorWasSubmitted ==
    \A r \in Monitored :
        LAST_PROCESSED_SHA[r] # startup_state[r] => handle_ok[r][LAST_PROCESSED_SHA[r]] >= 1

\* ---------------------------------------------------------------------- C3
\* C3: a repository's cursor is only ever replaced by a hash that is newer in
\* upstream history than the current one (so it never returns to a value it
\* held before).
C3_CursorOnlyMovesForward ==
    [][\A r \in AllRepos :
          LAST_PROCESSED_SHA'[r] # LAST_PROCESSED_SHA[r]
              => LAST_PROCESSED_SHA'[r] > LAST_PROCESSED_SHA[r]]_vars

\* ---------------------------------------------------------------------- C4
\* C4: when backfill advances a repository's cursor from p to h, every commit
\* of the history newer than p and not newer than h was submitted
\* successfully in that run.
C4_NoCommitLeftBehindCursor ==
    \A i \in 1..Len(MONITORED_REPOS) :
        LET repo == MONITORED_REPOS[i]
            p == Get(bf.current_state, repo)
            h == bf.newest_sha_processed_overall_map[repo]
        IN  BackfillAdvanced(i) =>
                \A s \in Shas :
                    (InHistory(repo, s) /\ s > p /\ s <= h) => RunSubmittedOk(repo, s)

\* ---------------------------------------------------------------------- C5
\* C5 (as claimed): a perform_backfill run that follows another run, with no
\* request in between and the same upstream history, makes no
\* Processor.handle call and leaves the cursor map as it found it.
C5_SecondRunIdle ==
    (bf.successive /\ bf.quiet)
        => (bf.log = <<>> /\ LAST_PROCESSED_SHA = bf.current_state)

\* C5 (restricted to complete runs): the same, for a run that follows a run
\* which met no provider error and submitted the newest buffered commit of
\* every repository.
C5_SecondRunIdleAfterCompleteRun ==
    (bf.after_complete /\ bf.quiet)
        => (bf.log = <<>> /\ LAST_PROCESSED_SHA = bf.current_state)

\* a second run has finished after a first run that submitted commits
C5_Witness ==
    /\ bf.after_complete /\ bf.quiet /\ bf.pc = "done" /\ bf.provider_ok
    /\ \E r \in Monitored : LAST_PROCESSED_SHA[r] # startup_state[r]
    /\ \E r \in Monitored, s \in Shas : handle_calls[r][s] > 0

\* ---------------------------------------------------------------------- C6
\* C6: a request whose signature does not verify is answered 403, whatever
\* its event type, and causes no submission and no cursor change.
C6_BadSignatureRejected ==
    (last.route # "none" /\ ~verify_signature(last.req))
        => (last.status = 403 /\ LastSubmitted = {} /\ last.changed = {})

\* ---------------------------------------------------------------------- C7
\* C7: backfill never writes a repository's cursor after a live request wrote
\* it since backfill read it: at each cursor write of perform_backfill the
\* stored value is still the one in its snapshot.
C7_NoWriteAfterStaleRead ==
    [][\A r \in Monitored :
          (bf.pc = "persist" /\ bf'.persist # bf.persist
             /\ LAST_PROCESSED_SHA'[r] # LAST_PROCESSED_SHA[r])
              => LAST_PROCESSED_SHA[r] = Get(bf.current_state, r)]_vars

\* ---------------------------------------------------------------------- C8
\* C8: once the lifespan has reached its yield, the backfill task it made is
\* eventually running.
C8_BackfillTaskRuns ==
    [](app.pc = "serving" => <>(app.backfill_task = "running"))

\* ---------------------------------------------------------------------- C9
\* C9: a perform_backfill run without provider, normalization or submission
\* failure submits, for every repository whose stored cursor c occurs in the
\* history, exactly the records strictly newer than c, oldest first, and
\* returns with the cursor at the newest record.
C9_SubmitsNewerThanCursor ==
    (bf.pc = "done" /\ bf.provider_ok /\ bf.commits_ok /\ bf.quiet) =>
        \A r \in Monitored :
            LET c == Get(bf.current_state, r)
                newest == upstream[r][1]
            IN  (c # None /\ InHistory(r, c)) =>
                    /\ RunCalls(r) = [k \in 1..(newest - c) |-> c + k]
                    /\ \A s \in Shas : RunSubmittedOk(r, s) <=> (s > c /\ s <= newest)
                    /\ LAST_PROCESSED_SHA[r] = newest

\* a clean run has returned after submitting two records newer than the cursor
C9_Witness ==
    /\ bf.pc = "done" /\ bf.provider_ok /\ bf.commits_ok /\ bf.quiet
    /\ \E r \in Monitored :
          /\ Get(bf.current_state, r) # None
          /\ InHistory(r, Get(bf.current_state, r))
          /\ Len(RunCalls(r)) >= 2

\* --------------------------------------------------------------------- C10
\* C10: a push for a monitored repository whose head_commit.id is the stored
\* cursor submits nothing and leaves the cursor unchanged in memory and on
\* disk, whatever commits[] holds.
C10_HeadAtCursorIsNoOp ==
    (LastIsMonitoredPush /\ last.req.head_commit.id # None
       /\ last.req.head_commit.id = last.cursor)
        => (LastSubmitted = {} /\ last.changed = {} /\ ~last.file_changed)

\* such a push, with other commits listed in commits[], has been answered
C10_Witness ==
    /\ LastIsMonitoredPush
    /\ last.req.head_commit.id # None
    /\ last.req.head_commit.id = last.cursor
    /\ Len(last.req.commits) = MaxCommits
    /\ \A i \in DOMAIN last.req.commits :
          last.req.commits[i] \notin {None, last.cursor}
    /\ last.status = 202

\* --------------------------------------------------------------------- C11
\* the position of repo in MONITORED_REPOS
RepoIndex(repo) == CHOOSE i \in 1..Len(MONITORED_REPOS) : MONITORED_REPOS[i] = repo

\* C11: when the history fetch of the k-th monitored repository raises a
\* rate-limit error, the run is over: no repository after k has its history
\* requested or a commit submitted in that run, no commit of repository k is
\* submitted, and the run leaves the cursor of repository k (and of every
\* later repository) as its snapshot had it.
C11_RateLimitStopsRun ==
    bf.rate_limited # 0 =>
        /\ bf.pc = "done"
        /\ bf.attempted \subseteq 1..bf.rate_limited
        /\ \A n \in DOMAIN bf.log : RepoIndex(bf.log[n].repo) < bf.rate_limited
        /\ \A i \in bf.rate_limited..Len(MONITORED_REPOS) :
              LAST_PROCESSED_SHA[MONITORED_REPOS[i]]
                  = Get(bf.current_state, MONITORED_REPOS[i])

\* the first repository was rate limited while both repositories had commits
\* newer than their cursors
C11_Witness ==
    /\ bf.rate_limited = 1
    /\ Len(MONITORED_REPOS) > 1
    /\ \A r \in Monitored :
          /\ upstream[r] # <<>>
          /\ Get(bf.current_state, r) # upstream[r][1]

\* --------------------------------------------------------------------- C12
\* the event handled last was a NEW event for a peer that emits KoiNetNode
\* events and no GithubCommit events, both phases are over and no
\* collaborator raised
DiscoveryOnlyPeerHandled ==
    /\ net.pc = "idle"
    /\ net.events > 0
    /\ net.kobj.normalized_event_type = "NEW"
    /\ net.kobj.profile.valid
    /\ KoiNetNode \in net.kobj.profile.event
    /\ GithubCommit \notin net.kobj.profile.event
    /\ ~net.failed

DiscoveryEdges ==
    {n \in DOMAIN net.proposals :
        /\ net.proposals[n].source = net.kobj.rid
        /\ net.proposals[n].target = Self
        /\ net.proposals[n].rid_types = {KoiNetNode}}

CommitEdges == {n \in DOMAIN net.proposals : GithubCommit \in net.proposals[n].rid_types}

C13_MissingRepositoryFieldsRejected ==
    (/\ last.req.event = "push"
     /\ \/ last.req.repository.full_name = ""
        \/ ~last.req.repository.owner
        \/ ~last.req.repository.name)
        => (last.status = 400 /\ LastSubmitted = {} /\ last.changed = {})

\* --------------------------------------------------------------------- C14
\* C14 (as claimed): a request whose event type is not push is answered 200
\* and causes no submission and no cursor change, whatever its payload.
C14_OtherEventsAnswered200 ==
    (last.route # "none" /\ last.req.event # "push")
        => (last.status = 200 /\ LastSubmitted = {} /\ last.changed = {}
            /\ ~last.file_changed)

\* C14 (amended): such a request is answered 202, the status of the route,
\* and causes no submission and no cursor change, whatever its payload.
C14_OtherEventsAnswered202 ==
    (last.route # "none" /\ last.req.event # "push")
        => (last.status = 202 /\ LastSubmitted = {} /\ last.changed = {}
            /\ ~last.file_changed)

\* an event other than ping and push, naming a monitored repository and a
\* commit that is not the stored cursor, has been answered
C14_Witness ==
    /\ last.route = "ignored_event"
    /\ last.req.event = "issues"
    /\ last.req.repository = WellFormed(MONITORED_REPOS[1])
    /\ last.req.head_commit.id # None
    /\ last.req.head_commit.id # last.cursor

\* --------------------------------------------------------------------- C15
\* C15: a well-formed push for a repository outside MONITORED_REPOS is
\* answered with a success status, causes no submission, changes no cursor in
\* memory or on disk, and leaves the repository without a cursor entry if it
\* had none.
C15_UnmonitoredPushIsNoOp ==
    (/\ last.req.event = "push"
     /\ last.req.repository = WellFormed(OtherRepo))
        => /\ last.status \in 200..299
           /\ LastSubmitted = {}
           /\ last.changed = {}
           /\ ~last.file_changed
           /\ (startup_state[OtherRepo] = None => OtherRepo \notin Keys(LAST_PROCESSED_SHA))

\* such a push, naming a commit, arrived while the repository had no entry
C15_Witness ==
    /\ last.req.event = "push"
    /\ last.req.repository = WellFormed(OtherRepo)
    /\ last.route = "not_monitored"
    /\ last.req.head_commit.id # None
    /\ startup_state[OtherRepo] = None

\* --------------------------------------------------------------------- C16
\* C16: when the dump inside update_state_file fails, the caller goes on as
\* after a successful set (the request is answered 202), the in-memory entry
\* of the repository is the new hash and the file is as it was; a later
\* request naming that hash for that repository finds it as the stored
\* cursor and submits nothing.
C16_FailedWriteStillAdvancesMemory ==
    [][/\ last'.write = "failed" =>
            /\ last'.status = 202
            /\ LAST_PROCESSED_SHA'[last'.req.repository.full_name]
                   = sha_to_update_state(last'.req)
            /\ state_file' = state_file
       /\ (/\ last.write = "failed"
           /\ requests' = requests + 1
           /\ last'.req.repository = last.req.repository
           /\ last'.req.head_commit.id = sha_to_update_state(last.req))
            => (last'.tried = <<>> /\ handle_calls' = handle_calls)]_vars

\* a push naming the hash of a set whose dump had failed has been answered:
\* the file still lags behind the in-memory cursor the push was checked against
C16_Witness ==
    /\ requests = 2
    /\ last.req.head_commit.id = last.cursor
    /\ last.tried = <<>>
    /\ LAST_PROCESSED_SHA[last.req.repository.full_name] = last.cursor
    /\ load_state(state_file)[last.req.repository.full_name] # last.cursor

\* --------------------------------------------------------------------- C19
\* C19: whenever the dump of the most recent update_state_file call succeeded,
\* the file holds exactly the in-memory mapping, entries whose own dump had
\* failed included.
C19_FileIsWholeMapAfterGoodWrite ==
    last.write = "ok" => state_file = [status |-> "ok", data |-> LAST_PROCESSED_SHA]

\* the dump of the second set succeeded after the dump of the first, for the
\* other repository, had failed
C19_Witness ==
    /\ requests = 2
    /\ faults = 1
    /\ last.write = "ok"
    /\ \E r \in Monitored :
          /\ r # last.req.repository.full_name
          /\ LAST_PROCESSED_SHA[r] # startup_state[r]

\* --------------------------------------------------------------------- C17
\* no update_state_file call has been made since the process started
NoSetYet ==
    /\ runs <= 1
    /\ \/ bf.pc \in {"idle", "fetch", "process"}
       \/ (bf.pc = "persist" /\ bf.persist = 1)

\* C17: a state file that is missing, unreadable or damaged loads as the
\* empty mapping; perform_backfill then takes every repository as having no
\* cursor and, when nothing fails, submits each history whole, oldest first.
C17_DamagedStoreLoadsEmpty ==
    (state_file.status # "ok" /\ NoSetYet) =>
        /\ LAST_PROCESSED_SHA = EmptyDict
        /\ Keys(startup_state) = {}
        /\ bf.pc # "idle" => \A r \in Monitored : Get(bf.current_state, r) = None
        /\ (bf.pc = "persist" /\ bf.provider_ok /\ bf.commits_ok) =>
               \A r \in Monitored : RunCalls(r) = reversed(upstream[r])

\* the first run after loading a damaged file that spells a cursor has
\* submitted a whole history and is about to store its cursors
C17_Witness ==
    /\ state_file \in DamagedFiles
    /\ NoSetYet
    /\ bf.pc = "persist" /\ bf.provider_ok /\ bf.commits_ok
    /\ Len(RunCalls(MONITORED_REPOS[1])) >= 2

\* --------------------------------------------------------------------- C18
\* C18: no exception leaves a handler: a collaborator that raises while a
\* KoiNetNode event is handled (Processor, graph, peer fetch) is caught inside
\* the handler, which returns normally.
C18_NoExceptionEscapes ==
    ~net.escaped

\* --------------------------------------------------------------------- C20
\* C20: when perform_backfill returns, every repository whose pass completed
\* with a last-submitted hash different from its stored cursor has that hash
\* as its cursor, also when a later repository was rate limited or skipped.
C20_CompletedPassesAreStored ==
    bf.pc = "done" =>
        \A r \in Monitored :
            LET newest == bf.newest_sha_processed_overall_map[r]
            IN  (newest # None /\ newest # Get(bf.current_state, r))
                    => LAST_PROCESSED_SHA[r] = newest

\* ---------------------------------------------------------------------------
\* the buffer perform_backfill builds for the i-th monitored repository from
\* the snapshot of the run, in the order it is submitted
RunBuffer(i) ==
    reversed(commits_to_process_buffer(upstream[MONITORED_REPOS[i]],
                                       Get(bf.current_state, MONITORED_REPOS[i])))

\* ... without the commits whose normalization raised
RunBufferKept(i) ==
    SelectSeq(RunBuffer(i),
              LAMBDA sha : [repo |-> MONITORED_REPOS[i], sha |-> sha] \notin bf.dropped)

\* the last sha of the run's log that was submitted without an error, or None
LastOk(repo) ==
    LET oks == {k \in DOMAIN bf.log : bf.log[k].repo = repo /\ bf.log[k].ok}
    IN  IF oks = {} THEN None
        ELSE bf.log[CHOOSE k \in oks : \A j \in oks : j <= k].sha

\* C21: a provider error other than the rate limit, or any unexpected error,
\* while the history of one repository is fetched makes the run skip that
\* repository: nothing is submitted for it and its cursor stays as it was. The
\* run goes on to the next monitored repository: every repository is
\* attempted, and each repository that was not skipped has its whole buffer
\* submitted oldest first and its cursor set to the newest submitted sha.
C21_ProviderErrorSkipsRepository ==
    /\ \A k \in bf.skipped :
          /\ RunCalls(MONITORED_REPOS[k]) = <<>>
          /\ bf.newest_sha_processed_overall_map[MONITORED_REPOS[k]] = None
          /\ LAST_PROCESSED_SHA[MONITORED_REPOS[k]]
                 = Get(bf.current_state, MONITORED_REPOS[k])
    /\ (bf.skipped # {} /\ bf.rate_limited = 0 /\ bf.pc \in {"persist", "done"}) =>
          bf.attempted = 1..Len(MONITORED_REPOS)
    /\ (bf.skipped # {} /\ bf.rate_limited = 0 /\ bf.pc = "done") =>
          \A i \in (1..Len(MONITORED_REPOS)) \ bf.skipped :
              /\ RunCalls(MONITORED_REPOS[i]) = RunBufferKept(i)
              /\ LastOk(MONITORED_REPOS[i]) # None =>
                    LAST_PROCESSED_SHA[MONITORED_REPOS[i]] = LastOk(MONITORED_REPOS[i])

\* the fetch of the first repository failed while it had commits to submit,
\* and the run went on to submit the commits of the second and moved its cursor
C21_Witness ==
    /\ bf.pc = "done"
    /\ bf.skipped = {1}
    /\ RunBuffer(1) # <<>>
    /\ Len(RunCalls(MONITORED_REPOS[2])) = MaxSha
    /\ LAST_PROCESSED_SHA[MONITORED_REPOS[2]] = MaxSha
    /\ Get(bf.current_state, MONITORED_REPOS[2]) # MaxSha

\* C22: in a backfill pass a commit that fails to normalize or to submit does
\* not stop the pass: the commits handed to the processor for a repository
\* are its whole buffer, oldest first, without the ones that failed to
\* normalize, and the sha tracked for the repository is the newest commit
\* whose submission succeeded.
C22_FailedCommitDoesNotStopPass ==
    \A i \in 1..Len(MONITORED_REPOS) :
        (i \in bf.attempted /\ i \notin bf.skipped /\ bf.rate_limited # i
         /\ (bf.repo > i \/ bf.pc = "done")) =>
            /\ RunCalls(MONITORED_REPOS[i]) = RunBufferKept(i)
            /\ bf.newest_sha_processed_overall_map[MONITORED_REPOS[i]]
                   = LastOk(MONITORED_REPOS[i])

\* the oldest buffered commit of the first repository failed and the two
\* newer ones were submitted after it
C22_Witness ==
    /\ bf.repo > 1
    /\ 1 \in bf.attempted
    /\ ~bf.commits_ok
    /\ Len(RunBuffer(1)) = MaxSha
    /\ ~RunSubmittedOk(MONITORED_REPOS[1], RunBuffer(1)[1])
    /\ \A n \in 2..MaxSha : RunSubmittedOk(MONITORED_REPOS[1], RunBuffer(1)[n])
    /\ bf.newest_sha_processed_overall_map[MONITORED_REPOS[1]] = RunBuffer(1)[MaxSha]

\* ---------------------------------------------------------------------------
\* the tip of the last request as the notification defines it: the id of
\* head_commit when there is one, else the id of the last entry of commits[]
LastTip ==
    IF last.req.head_commit.id # None THEN last.req.head_commit.id
    ELSE IF last.req.commits # <<>> THEN last.req.commits[Len(last.req.commits)]
    ELSE None

\* the candidates of the last request: head_commit when it has an id, else
\* the entries of commits[]
LastCandidates ==
    IF last.req.head_commit.id # None THEN <<last.req.head_commit.id>>
    ELSE last.req.commits

\* the candidates of the last request that have an id other than the cursor
LastEligible == TriedFrom(LastCandidates, last.cursor, 1)

\* C23: in a push for a monitored repository the tip is head_commit's id
\* whenever head_commit has one; when head_commit is absent, null or without
\* an id and commits[] is not empty, the handler processes the entries of
\* commits[] and takes the id of the last entry as the tip.
C23_TipIsHeadOrLastEntry ==
    (LastIsMonitoredPush
       /\ (last.req.head_commit.id # None \/ last.req.commits # <<>>)) =>
        /\ last.route = "loop"
        /\ last.tried = LastEligible
        /\ last.write # "none" =>
              LAST_PROCESSED_SHA[last.req.repository.full_name] = LastTip

\* C23 for a head_commit that is an object or is absent from the payload
C23_TipIsHeadOrLastEntryUnlessNull ==
    (LastIsMonitoredPush /\ last.req.head_commit.kind # "null"
       /\ (last.req.head_commit.id # None \/ last.req.commits # <<>>)) =>
        /\ last.route = "loop"
        /\ last.tried = LastEligible
        /\ last.write # "none" =>
              LAST_PROCESSED_SHA[last.req.repository.full_name] = LastTip

\* a push without head_commit and with two entries in commits[] moved the
\* cursor to the id of the last entry
C23_Witness ==
    /\ LastIsMonitoredPush
    /\ last.req.head_commit.kind = "absent"
    /\ Len(last.req.commits) = 2
    /\ Len(last.tried) = 2
    /\ last.write = "ok"
    /\ last.req.commits[1] # last.req.commits[2]
    /\ LAST_PROCESSED_SHA[last.req.repository.full_name] = last.req.commits[2]

\* C24: when a push for a monitored repository has been handled, the cursor
\* was set to the tip if and only if a commit of the notification was newly
\* submitted, a tip was determined and the tip differs from the stored cursor;
\* otherwise the cursor is as it was, in memory and on disk.
C24_CursorSetIffSubmittedAndNewTip ==
    LastIsMonitoredPush =>
        /\ last.write # "none" <=>
              /\ \E i \in DOMAIN last.tried : last.outcomes[i] = "ok"
              /\ LastTip # None
              /\ LastTip # last.cursor
        /\ last.write # "none" =>
              /\ LAST_PROCESSED_SHA[last.req.repository.full_name] = LastTip
              /\ last.changed \subseteq {last.req.repository.full_name}
        /\ last.write = "none" => (last.changed = {} /\ ~last.file_changed)

\* a push whose commits[] holds the stored cursor and then a new id moved the
\* cursor to the new id
C24_Witness ==
    /\ LastIsMonitoredPush
    /\ last.req.head_commit.id = None
    /\ Len(last.req.commits) = 2
    /\ last.cursor # None
    /\ last.req.commits[1] = last.cursor
    /\ last.req.commits[2] \notin {None, last.cursor}
    /\ last.write = "ok"
    /\ LAST_PROCESSED_SHA[last.req.repository.full_name] = last.req.commits[2]

\* C25: in one push notification a candidate that fails to normalize or to
\* submit does not keep the others from being processed: every candidate with
\* an id other than the cursor reaches the processor unless its own
\* normalization fails, and the request is answered with the success status.
C25_FailedCandidateDoesNotStopOthers ==
    (LastIsMonitoredPush /\ last.route = "loop") =>
        /\ last.status = 202
        /\ last.tried = LastEligible
        /\ \A s \in Shas :
              /\ handle_calls[last.req.repository.full_name][s]
                    = Cardinality({i \in DOMAIN last.tried :
                                     last.tried[i] = s /\ HandleCalled(last.outcomes[i])})
              /\ handle_ok[last.req.repository.full_name][s]
                    = Cardinality({i \in DOMAIN last.tried :
                                     last.tried[i] = s /\ last.outcomes[i] = "ok"})

\* the first of two candidates failed and the second was submitted
C25_Witness ==
    /\ LastIsMonitoredPush
    /\ last.route = "loop"
    /\ Len(last.tried) = 2
    /\ last.tried[1] # last.tried[2]
    /\ last.outcomes[1] # "ok"
    /\ last.outcomes[2] = "ok"
    /\ handle_ok[last.req.repository.full_name][last.tried[2]] = 1
    /\ last.status = 202

\* ---------------------------------------------------------------------------
\* C26: normalization of a raw commit of either feed fails only when the hash
\* is missing or empty: a record with a hash is submitted whatever is absent
\* or null among its author block, committer block and timestamp, with the
\* absent-value marker in place of each missing part; a record without a
\* hash is not submitted (every exception is caught inside the loop body, so
\* none reaches the caller).
C26_OnlyMissingHashFailsNormalization ==
    norm.pc = "done" =>
        IF norm.commit.id = None
        THEN norm.status \in {"skipped", "failed"}
        ELSE /\ norm.status = "submitted"
             /\ norm.contents.sha = norm.commit.id
             /\ norm.commit.author # "dict" => norm.contents.author = "None"
             /\ norm.commit.committer # "dict" => norm.contents.committer = "None"
             /\ norm.commit.timestamp # "value" => norm.contents.date = "None"

\* C26 for records whose author and committer blocks are objects or absent
C26_OnlyMissingHashFailsUnlessNullBlock ==
    (norm.pc = "done"
       /\ (norm.feed = "webhook" =>
              (norm.commit.author # "null" /\ norm.commit.committer # "null"))) =>
        IF norm.commit.id = None
        THEN norm.status \in {"skipped", "failed"}
        ELSE /\ norm.status = "submitted"
             /\ norm.contents.sha = norm.commit.id
             /\ norm.commit.author # "dict" => norm.contents.author = "None"
             /\ norm.commit.committer # "dict" => norm.contents.committer = "None"
             /\ norm.commit.timestamp # "value" => norm.contents.date = "None"

\* a webhook record with a hash and nothing else was submitted with markers
C26_Witness ==
    /\ norm.pc = "done"
    /\ norm.feed = "webhook"
    /\ norm.commit.id # None
    /\ norm.commit.author = "absent"
    /\ norm.commit.committer = "absent"
    /\ norm.commit.timestamp = "absent"
    /\ norm.status = "submitted"
    /\ norm.contents.author = "None"

\* ---------------------------------------------------------------------------
\* coordinator_contact has returned for net.kobj and the Final phase has not
\* begun: proposals, sync and rid_requests are what the discovery handler did
DiscoveryHandled == net.pc = "final"

\* the proposals of the event that cover exactly the node-discovery type
KoiNetNodeEdges ==
    {n \in DOMAIN net.proposals : net.proposals[n].rid_types = {KoiNetNode}}

\* C27: the discovery handler does nothing -- no edge proposal, no inventory
\* request, no fetch-details request -- for an event that is not NEW, for a
\* peer whose profile does not validate, and for a peer whose emitted event
\* types do not include KoiNetNode.
C27_DiscoveryIgnoresOtherEvents ==
    (DiscoveryHandled
       /\ (\/ net.kobj.normalized_event_type # "NEW"
           \/ ~net.kobj.profile.valid
           \/ KoiNetNode \notin net.kobj.profile.event)) =>
        /\ net.proposals = <<>>
        /\ net.sync = NotCalled
        /\ net.rid_requests = <<>>
        /\ ~net.failed

\* a NEW event of a peer that emits only commit events was discarded while
\* the peer was unknown to the cache and to the graph
C27_Witness ==
    /\ DiscoveryHandled
    /\ net.kobj.normalized_event_type = "NEW"
    /\ net.kobj.profile.valid
    /\ net.kobj.profile.event = {GithubCommit}
    /\ net.kobj.rid \notin net.cache
    /\ net.proposals = <<>>
    /\ net.sync = NotCalled

\* C28: for a NEW peer that declares the node-discovery type the discovery
\* handler submits exactly one edge proposal, from the peer to this node,
\* covering exactly {KoiNetNode} (unless building the edge bundle raises); it
\* does so again when the event before was the same, the handler keeping no
\* record of the edges it proposed.
C28_OneDiscoveryEdgePerNewEvent ==
    (DiscoveryHandled
       /\ net.kobj.normalized_event_type = "NEW"
       /\ net.kobj.profile.valid
       /\ KoiNetNode \in net.kobj.profile.event
       /\ net.edge_outcome # "generate_error") =>
        /\ Len(net.proposals) = 1
        /\ net.proposals[1].source = net.kobj.rid
        /\ net.proposals[1].target = Self
        /\ net.proposals[1].rid_types = {KoiNetNode}

\* the second of two NEW events of the same peer proposed the edge again
C28_Witness ==
    /\ DiscoveryHandled
    /\ net.events = 2
    /\ net.again
    /\ net.kobj.normalized_event_type = "NEW"
    /\ Len(net.proposals) = 1
    /\ net.proposals[1].source = net.kobj.rid
    /\ net.proposals[1].target = Self
    /\ net.proposals[1].rid_types = {KoiNetNode}

\* the rids of the inventory that are neither this node nor in the cache
RECURSIVE NotSelfNotCached(_)
NotSelfNotCached(rids) ==
    IF rids = <<>> THEN <<>>
    ELSE (IF Head(rids) # Self /\ Head(rids) \notin net.cache THEN <<Head(rids)>> ELSE <<>>)
         \o NotSelfNotCached(Tail(rids))

\* C29: having requested the inventory of a peer, the discovery handler
\* submits a fetch-details request for exactly the returned rids that are
\* neither this node's own rid nor in the cache, in the order returned (up to
\* the first request that raises, if one does); an inventory that is empty or
\* cannot be had yields no request, and no exception leaves the handler.
C29_FetchDetailsForUnknownPeers ==
    (DiscoveryHandled /\ net.sync # NotCalled) =>
        /\ ~net.escaped
        /\ (net.sync.kind # "payload" \/ net.sync.rids = <<>>) => net.rid_requests = <<>>
        /\ (net.sync.kind = "payload" /\ ~net.request_failed) =>
              net.rid_requests = NotSelfNotCached(net.sync.rids)
        /\ \E k \in 0..Len(NotSelfNotCached(net.sync.rids)) :
              net.rid_requests = SubSeq(NotSelfNotCached(net.sync.rids), 1, k)

\* an inventory naming this node, a cached peer and an unknown peer led to one
\* request, for the unknown peer
C29_Witness ==
    /\ DiscoveryHandled
    /\ net.sync.kind = "payload"
    /\ Len(net.sync.rids) = MaxRids
    /\ \E i, j \in DOMAIN net.sync.rids :
          /\ net.sync.rids[i] \in net.cache \/ net.sync.rids[i] = Self
          /\ net.sync.rids[j] \notin net.cache \cup {Self}
    /\ net.cache # {}
    /\ Len(net.rid_requests) = 1
    /\ ~net.request_failed

\* the Final phase of the last event is over
FinalHandled == net.pc = "idle" /\ net.events > 0

\* C30: the coordinator edge proposer submits an edge covering the commit
\* type, from this node to the peer just processed, if and only if the event
\* is NEW and the neighbours in the graph are exactly that peer (no collaborator
\* raising); with no neighbour, with two or more, or with one other peer it
\* proposes nothing.
C30_CommitEdgeIffOnlyNeighbour ==
    (FinalHandled /\ ~net.failed) =>
        /\ CommitEdges # {} <=>
              /\ net.kobj.normalized_event_type = "NEW"
              /\ net.neighbors = {net.kobj.rid}
        /\ \A n \in CommitEdges :
              /\ n = Len(net.proposals)
              /\ net.proposals[n].source = Self
              /\ net.proposals[n].target = net.kobj.rid
              /\ net.proposals[n].rid_types = {GithubCommit}
        /\ Cardinality(CommitEdges) <= 1

\* a NEW event was processed while the only neighbour was another peer, and
\* no commit edge was proposed
C30_Witness ==
    /\ FinalHandled
    /\ ~net.failed
    /\ net.kobj.normalized_event_type = "NEW"
    /\ Cardinality(net.neighbors) = 1
    /\ net.kobj.rid \notin net.neighbors
    /\ CommitEdges = {}
    /\ Len(net.proposals) = 1

\* ---------------------------------------------------------------------------
\* the ids listed in commits[] of the last request other than head_commit's
LastOtherCommits ==
    {last.req.commits[i] : i \in DOMAIN last.req.commits} \ {last.req.head_commit.id}

\* C33: when a push carries a head_commit with an id, head_commit is the only
\* candidate: no entry of commits[] is submitted by that notification, and
\* the cursor is set to the head hash once the head commit was submitted. The
\* other commits of a multi-commit push are then submitted neither by the
\* notification nor by a perform_backfill run that begins afterwards, which
\* stops at the new cursor.
C33_HeadCommitShadowsCommitsList ==
    (LastIsMonitoredPush /\ last.req.head_commit.id # None) =>
        /\ Len(last.tried) <= 1
        /\ \A i \in DOMAIN last.tried : last.tried[i] = last.req.head_commit.id
        /\ ((\E i \in DOMAIN last.tried : last.outcomes[i] = "ok")
              /\ last.req.head_commit.id # last.cursor) => last.write # "none"
        /\ (last.write # "none" /\ runs = 0) =>
              LAST_PROCESSED_SHA[last.req.repository.full_name] = last.req.head_commit.id
        \* no perform_backfill run began before the push
        /\ (last.write # "none" /\ (runs = 0 \/ bf.quiet)) =>
              \A s \in LastOtherCommits :
                  handle_calls[last.req.repository.full_name][s] = 0

\* a push of two commits moved the cursor to its head, and the run that
\* followed submitted the commits after the head only
C33_Witness ==
    /\ LastIsMonitoredPush
    /\ last.req.head_commit.id = MaxSha - 1
    /\ Len(last.req.commits) = 2
    /\ last.write = "ok"
    /\ bf.pc = "done" /\ bf.quiet /\ bf.provider_ok /\ bf.commits_ok
    /\ handle_calls[last.req.repository.full_name][MaxSha - 2] = 0
    /\ handle_calls[last.req.repository.full_name][MaxSha] = 1
    /\ LAST_PROCESSED_SHA[last.req.repository.full_name] = MaxSha

\* ---------------------------------------------------------------------------
\* C34: a perform_backfill run takes one snapshot of the cursor map when it
\* begins and uses only the snapshot: the snapshot does not change while the
\* run is in progress, the buffer of every repository is cut at the snapshot's
\* cursor whatever the cursor map holds by then, the run writes a repository's
\* cursor exactly when its newest submitted hash differs from the snapshot's,
\* and that write replaces whatever value is stored at that moment.
C34_BackfillUsesItsSnapshot ==
    [][/\ bf.pc \notin {"idle", "done"} => bf'.current_state = bf.current_state
       /\ (bf.pc = "fetch" /\ bf'.pc = "process") =>
             bf'.todo = reversed(commits_to_process_buffer(
                                    upstream[MONITORED_REPOS[bf.repo]],
                                    Get(bf.current_state, MONITORED_REPOS[bf.repo])))
       /\ (bf.pc = "persist" /\ bf'.persist # bf.persist) =>
             LET repo == MONITORED_REPOS[bf'.persist - 1]
                 newest == bf.newest_sha_processed_overall_map[repo]
             IN  IF newest # Get(bf.current_state, repo)
                 THEN LAST_PROCESSED_SHA' = [LAST_PROCESSED_SHA EXCEPT ![repo] = newest]
                 ELSE LAST_PROCESSED_SHA' = LAST_PROCESSED_SHA]_vars

\* a push moved the cursor of the first repository while the run was in
\* progress; the run still submitted the commit the push had submitted and
\* then replaced the cursor the push had stored
C34_Witness ==
    /\ bf.pc = "done" /\ ~bf.quiet /\ bf.provider_ok /\ bf.commits_ok
    /\ LastIsMonitoredPush
    /\ last.write = "ok"
    /\ last.cursor = Get(bf.current_state, last.req.repository.full_name)
    /\ LAST_PROCESSED_SHA[last.req.repository.full_name] = MaxSha
    /\ LastTip = MaxSha - 1
    /\ handle_ok[last.req.repository.full_name][MaxSha - 1] = 2

\* ---------------------------------------------------------------------------
\* C35: when the stored cursor of a repository occurs nowhere in the
\* provider's history, a perform_backfill pass without failure buffers the
\* whole history, submits every record oldest first and sets the cursor to
\* the newest record's hash.
C35_UnknownCursorBackfillsEverything ==
    (bf.pc = "done" /\ bf.provider_ok /\ bf.commits_ok /\ bf.quiet) =>
        \A r \in Monitored :
            LET c == Get(bf.current_state, r)
            IN  (c # None /\ ~InHistory(r, c) /\ upstream[r] # <<>>) =>
                    /\ RunCalls(r) = reversed(upstream[r])
                    /\ \A i \in DOMAIN upstream[r] : RunSubmittedOk(r, upstream[r][i])
                    /\ LAST_PROCESSED_SHA[r] = upstream[r][1]

\* the stored cursor of the first repository is a hash its history of two
\* records does not hold; both were submitted and the cursor is the newest
C35_Witness ==
    /\ bf.pc = "done" /\ bf.provider_ok /\ bf.commits_ok /\ bf.quiet
    /\ Get(bf.current_state, MONITORED_REPOS[1]) = MaxSha
    /\ upstream[MONITORED_REPOS[1]] = History(MaxSha - 1)
    /\ RunCalls(MONITORED_REPOS[1]) = reversed(History(MaxSha - 1))
    /\ LAST_PROCESSED_SHA[MONITORED_REPOS[1]] = MaxSha - 1

\* ---------------------------------------------------------------------------
\* C36: in the discovery handler a failure while generating or submitting the
\* discovery edge proposal does not prevent the inventory request: fetch_rids
\* is still called, and a fetch-details request is submitted for the rids it
\* returns that are neither this node nor in the cache.
C36_EdgeFailureDoesNotStopSync ==
    (DiscoveryHandled
       /\ net.kobj.normalized_event_type = "NEW"
       /\ net.kobj.profile.valid
       /\ KoiNetNode \in net.kobj.profile.event
       /\ net.edge_outcome # "ok") =>
        /\ net.sync # NotCalled
        /\ (net.sync.kind = "payload" /\ ~net.request_failed) =>
              net.rid_requests = NotSelfNotCached(net.sync.rids)

\* generating the edge bundle raised, and the inventory that was requested
\* next led to a fetch-details request for an unknown peer
C36_Witness ==
    /\ DiscoveryHandled
    /\ net.edge_outcome = "generate_error"
    /\ net.proposals = <<>>
    /\ net.sync.kind = "payload"
    /\ Len(net.rid_requests) = 1
    /\ net.rid_requests[1] \notin net.cache \cup {Self, net.kobj.rid}

\* ---------------------------------------------------------------------------
\* C38: the keys of the cursor map are always among the keys loaded at
\* startup and the monitored repositories: no step of perform_backfill or of
\* the webhook handler creates or changes the entry of a repository that is
\* not monitored, and no step removes an entry.
C38_CursorKeysStayWithinMonitored ==
    [][/\ Keys(LAST_PROCESSED_SHA') \subseteq Keys(startup_state) \cup Monitored
       /\ \A r \in AllRepos \ Monitored : LAST_PROCESSED_SHA'[r] = LAST_PROCESSED_SHA[r]
       /\ Keys(LAST_PROCESSED_SHA) \subseteq Keys(LAST_PROCESSED_SHA')]_vars

\* a push for a repository that is not monitored was answered and a run has
\* finished: the run created the entry of the first monitored repository, and
\* the entry of the other repository is the one loaded at startup
C38_Witness ==
    /\ bf.pc = "done"
    /\ last.req.repository.full_name = OtherRepo
    /\ last.route = "not_monitored"
    /\ startup_state[MONITORED_REPOS[1]] = None
    /\ LAST_PROCESSED_SHA[MONITORED_REPOS[1]] = MaxSha
    /\ startup_state[OtherRepo] # None
    /\ LAST_PROCESSED_SHA[OtherRepo] = startup_state[OtherRepo]

\* ---------------------------------------------------------------------------
\* C37: on the coordinator, handshake_handler reacts to every NEW node event,
\* whatever the peer's profile declares, by pushing this node's identity
\* bundle to the peer (flushed), then submitting a FORGET for the edge
\* identity, then submitting the edge proposal from the peer to this node
\* covering the node and edge types, in that order (up to the first call that
\* raises, if one does); for any other event type it does nothing.
C37_HandshakeOnEveryNewEvent ==
    coord.events > 0 =>
        IF coord.kobj.event_type # "NEW" THEN coord.calls = <<>> /\ ~coord.raised
        ELSE LET push == [call |-> "push_event_to", node |-> coord.kobj.rid,
                          event_type |-> "NEW", bundle |-> CoordinatorRid,
                          flush |-> TRUE, ok |-> TRUE]
                 forget == [call |-> "handle_rid", source |-> coord.kobj.rid,
                            target |-> CoordinatorRid, event_type |-> "FORGET",
                            ok |-> TRUE]
                 propose == [call |-> "handle_bundle", source |-> coord.kobj.rid,
                             target |-> CoordinatorRid, edge_type |-> "WEBHOOK",
                             rid_types |-> {KoiNetNode, KoiNetEdge}, ok |-> TRUE]
                 full == <<push, forget, propose>>
             IN  /\ ~coord.raised => coord.calls = full
                 /\ Len(coord.calls) <= Len(full)
                 /\ \A n \in DOMAIN coord.calls :
                       /\ [coord.calls[n] EXCEPT !.ok = TRUE] = full[n]
                       /\ n < Len(coord.calls) => coord.calls[n].ok

\* a NEW event of a peer whose profile does not validate got the three calls
C37_Witness ==
    /\ coord.events > 0
    /\ coord.kobj.event_type = "NEW"
    /\ ~coord.kobj.profile.valid
    /\ ~coord.raised
    /\ Len(coord.calls) = 3
    /\ coord.calls[1].call = "push_event_to"
    /\ coord.calls[2].call = "handle_rid"
    /\ coord.calls[3].call = "handle_bundle"

\* ---------------------------------------------------------------------------
\* C39: an identity is constructed exactly from an owner, a repository name
\* and a hash that are all non-empty with no "/" in the owner or the
\* repository name, and it holds those three; any other input makes the
\* constructor fail without producing an identity, so that nothing is
\* submitted under such an identity.
C39_IdentityIsWellFormed ==
    ident.pc \notin {"idle", "args"} =>
        LET valid == /\ ident.owner # <<>> /\ ident.repo # <<>> /\ ident.sha # <<>>
                     /\ \A i \in DOMAIN ident.owner : ident.owner[i] # "/"
                     /\ \A i \in DOMAIN ident.repo : ident.repo[i] # "/"
        IN  /\ ident.self.ok <=> valid
            /\ ident.self.ok =>
                  /\ ident.self.owner = ident.owner
                  /\ ident.self.repo = ident.repo
                  /\ ident.self.sha = ident.sha
            /\ ~ident.self.ok => ident.self = NoIdentity
            /\ ident.pc \in {"submitted", "parsed", "unparsed"} <=> valid

\* a repository name holding the separator was refused, the owner and the
\* hash being fine
C39_Witness ==
    /\ ident.pc = "rejected"
    /\ ident.owner = <<"a">>
    /\ ident.repo = <<"a", "/">>
    /\ Len(ident.sha) = MinShaLen
    /\ ident.self = NoIdentity

\* C40: for every identity the constructor accepts, parsing its serialized
\* reference succeeds and gives back the same owner, repository name and hash.
C40_ReferenceRoundTrip ==
    ident.pc \in {"parsed", "unparsed"} =>
        (ident.parsed.ok /\ ident.parsed = ident.self)

\* C40 for hashes of at least MinShaLen characters
C40_ReferenceRoundTripForLongHashes ==
    (ident.pc \in {"parsed", "unparsed"} /\ Len(ident.sha) >= MinShaLen) =>
        (ident.parsed.ok /\ ident.parsed = ident.self)

\* a hash of MinShaLen characters that holds the separator came back unchanged
C40_Witness ==
    /\ ident.pc = "parsed"
    /\ Len(ident.sha) = MinShaLen
    /\ Contains(ident.sha, "/")
    /\ ident.parsed = ident.self

\* ---------------------------------------------------------------------------
\* C32: every backfill run that has begun reaches its end, every peer event
\* whose Network phase is over leaves the Final phase, and every push
\* notification has got its response, whatever fails on the way; within one
\* backfill run no repository's history is requested more than once.
C32_EveryHandlingTerminates ==
    /\ [](\A i \in 1..Len(MONITORED_REPOS) : bf.fetches[i] <= 1)
    /\ [](requests > 0 => last.status \in {202, 400, 403, 500})
    /\ (bf.pc \in {"fetch", "process", "persist"}) ~> (bf.pc = "done")
    /\ (net.pc = "final") ~> (net.pc = "idle")

\* a run ended after a provider error on the first repository: the second
\* repository was requested once and the first was not asked again
C32_Witness ==
    /\ bf.pc = "done"
    /\ bf.skipped = {1}
    /\ bf.fetches = [i \in 1..Len(MONITORED_REPOS) |-> 1]
    /\ faults = MaxFaults

====
